---- MODULE Spec2Model ----
(***************************************************************************)
(* Model of the document-to-chunk retrieval pipeline of fin-agent-demo:    *)
(* the PDF ingestion service (class PDFVectorDB) and the data service      *)
(* (class VectorQueryAPI).                                                 *)
(*                                                                         *)
(* Text is modelled run-length encoded: a string is a sequence of runs     *)
(* [k, n, v, c], where k is the character class of the run, n its length   *)
(* in characters, v the word of a literal run and c the characters of a    *)
(* run the code captures and compares (a sequence of one-character         *)
(* strings), empty for the other runs.                                     *)
(*   k = "w"    n filler characters: no whitespace, no sentence            *)
(*              terminator, no letter or digit of any marker               *)
(*   k = "s"    n space characters                                         *)
(*   k = "t"    one sentence terminator, v one of ".", "!", "?"            *)
(*   k = "lit"  a literal word the code searches for, v the word           *)
(*   k = "d"    a run of decimal digits, v the digits                      *)
(*   k = "rom"  a run of the letters I, V, X, v the letters                *)
(*   k = "name" a phrase matching the company-name pattern at a line start *)
(*   k = "up", "lo"  a run of upper-case, lower-case letters               *)
(*   k = "nl"   one line break                                             *)
(*   k = "amt"  a maximal run of digits and commas, c its characters       *)
(* Short strings that are compared or searched character by character      *)
(* (company names, tickers, filters) are sequences of one-character        *)
(* strings.                                                                *)
(***************************************************************************)
EXTENDS Integers, Sequences, FiniteSets, TLC

VARIABLES
    \* --- chunkDocument applied to one input (specification SpecChunk)
    cText,      \* the text argument
    cInfo,      \* the companyInfo argument
    cChunks,    \* the DocumentChunk[] returned
    cParts,     \* history: for each returned chunk, the sentences packed in it
    cPc,        \* "start" before the call, "done" after it
    \* --- extractCompanyInfo applied to one input (specification SpecExtract)
    xText,      \* the text argument
    xInfo,      \* the CompanyInfo returned
    xPc,        \* "start" before the call, "done" after it
    \* --- the financial summaries of a chunk list (specification SpecMetrics)
    mChunks,    \* the chunks argument: the content of each chunk
    mMetrics,   \* what extractFinancialMetrics returned
    mSummary,   \* what summarizeFinancials returned: its entries before the join
    mPc,        \* "start", then "metrics", then "done"
    \* --- one PDFVectorDB process after another (specification Spec)
    store,      \* the database ./lancedb: whether company_documents exists, its rows
    table,      \* this.table: "null" or "open"
    pc,         \* where main is
    files,      \* fs.readdirSync(directoryPath)
    fileIdx,    \* the loop index of ingestPDFDirectory, 1-based
    docChunks,  \* the chunks of the document being ingested
    chunkPos,   \* the position of the embedding loop in chunks, 1-based
    inFlight,   \* embedding calls issued and not yet answered
    addPending, \* whether a table.add is issued and not yet answered
    embedLog,   \* history: the embedding calls issued, as <<document, chunk>>
    embedFails, \* history: the embedding calls that failed
    insertLog,  \* history: the table.add calls issued
    errLog,     \* console.error lines of this run
    okLog,      \* the documents reported as successfully processed
    rows0,      \* history: the rows of the table when this run began to ingest
    runs,       \* the number of processes started so far
    \* --- the data service, one request after another (specification SpecQuery)
    qRows,      \* the rows of company_documents
    qTable,     \* this.table of VectorQueryAPI: "null" or "open"
    qPc,        \* where the handler of the current request is
    qReq,       \* req.body of the current request
    qRes,       \* the response to the current request
    qEmbedCalls,    \* embedding calls made for the current request
    qStorageCalls,  \* storage calls made for the current request
    qSearch,    \* the search the current request sent to the table
    qRaw,       \* history: the raw results the table returned
    qRoute,     \* the route of the current request
    qArg,       \* the parameters and body of a request to another route
    qFault,     \* the error thrown inside the handler, "" when none
    qHealth,    \* the last answer of GET /health
    qExt,       \* history: the outcomes of the external calls of the request
    qPrev       \* history: the first exchange, when the request is a repeat

extractVars == <<xText, xInfo, xPc>>
metricsVars == <<mChunks, mMetrics, mSummary, mPc>>
chunkVars == <<cText, cInfo, cChunks, cParts, cPc, extractVars, metricsVars>>
ingestVars == <<store, table, pc, files, fileIdx, docChunks, chunkPos,
                inFlight, addPending,
                embedLog, embedFails, insertLog, errLog, okLog, rows0, runs>>
queryVars == <<qRows, qTable, qPc, qReq, qRes, qEmbedCalls, qStorageCalls,
               qSearch, qRaw, qRoute, qArg, qFault, qHealth, qExt, qPrev>>
vars == <<chunkVars, ingestVars, queryVars>>

----------------------------------------------------------------------------
(* Strings *)

W(n) == [k |-> "w", n |-> n, v |-> "", c |-> <<>>]
S(n) == [k |-> "s", n |-> n, v |-> "", c |-> <<>>]
Dot == [k |-> "t", n |-> 1, v |-> ".", c |-> <<>>]
Lit(word, n) == [k |-> "lit", n |-> n, v |-> word, c |-> <<>>]
D(digits, n) == [k |-> "d", n |-> n, v |-> digits, c |-> <<>>]
Rom(letters, n) == [k |-> "rom", n |-> n, v |-> letters, c |-> <<>>]
Name(chars) == [k |-> "name", n |-> Len(chars), v |-> "", c |-> chars]
Up(chars) == [k |-> "up", n |-> Len(chars), v |-> "", c |-> chars]
Lo(chars) == [k |-> "lo", n |-> Len(chars), v |-> "", c |-> chars]
NL == [k |-> "nl", n |-> 1, v |-> "", c |-> <<>>]
Amt(chars) == [k |-> "amt", n |-> Len(chars), v |-> "", c |-> chars]
Dollar == Lit("$", 1)

\* the string of a sequence of characters
RECURSIVE Join(_)
Join(chars) == IF chars = <<>> THEN "" ELSE Head(chars) \o Join(Tail(chars))

\* String.prototype.length
RECURSIVE Length(_)
Length(s) == IF s = <<>> THEN 0 ELSE s[1].n + Length(Tail(s))

\* a run of white space, as \s and trim see it
IsSpace(t) == t.k \in {"s", "nl"}

RECURSIVE trimStart(_)
trimStart(s) == IF s # <<>> /\ IsSpace(s[1]) THEN trimStart(Tail(s)) ELSE s

RECURSIVE trimEnd(_)
trimEnd(s) ==
    IF s # <<>> /\ IsSpace(s[Len(s)]) THEN trimEnd(SubSeq(s, 1, Len(s) - 1)) ELSE s

\* String.prototype.trim
trim(s) == trimEnd(trimStart(s))

\* String.prototype.includes for a pattern whose first and last runs are
\* literal words: the pattern occurs iff its runs occur contiguously.
includes(s, pat) ==
    \E i \in 1..Len(s) :
        /\ i + Len(pat) - 1 <= Len(s)
        /\ SubSeq(s, i, i + Len(pat) - 1) = pat

NaN == [nan |-> TRUE, n |-> 0]

DigitChars == <<"0", "1", "2", "3", "4", "5", "6", "7", "8", "9">>

IsDigit(ch) == \E d \in DOMAIN DigitChars : DigitChars[d] = ch

DigitVal(ch) == (CHOOSE d \in DOMAIN DigitChars : DigitChars[d] = ch) - 1

\* the number a string of decimal digits denotes
RECURSIVE DigitsVal(_)
DigitsVal(chars) ==
    IF chars = <<>> THEN 0
    ELSE DigitsVal(SubSeq(chars, 1, Len(chars) - 1)) * 10
            + DigitVal(chars[Len(chars)])

BatzInc == <<"B", "a", "t", "z", " ", "I", "n", "c">>
ABCD == <<"A", "B", "C", "D">>

Item1Business ==
    <<Lit("Item", 4), S(1), D("1", 1), Dot, S(1), Lit("Business", 8)>>
Item2RiskFactors ==
    <<Lit("Item", 4), S(1), D("2", 1), Dot, S(1), Lit("Risk Factors", 12)>>
FinancialStatements == <<Lit("Financial Statements", 20)>>
PartI == <<Lit("PART", 4), S(1), Rom("I", 1)>>

ExtractIdle ==
    /\ xText = <<>>
    /\ xInfo = [name |-> <<>>, ticker |-> <<>>]
    /\ xPc = "off"

MetricsIdle ==
    /\ mChunks = <<>>
    /\ mMetrics = <<>>
    /\ mSummary = <<>>
    /\ mPc = "off"

----------------------------------------------------------------------------
(* chunkDocument *)

\* vector: []
EmptyVector == [dim |-> 0, zero |-> FALSE, of |-> <<>>]

maxChunkSize == 1000
minSectionLength == 100

\* the lookahead /(?=PART\s+[IVX]+|Item\s+\d+)/ matches at run i
IsSectionStart(s, i) ==
    /\ i + 2 <= Len(s)
    /\ s[i].k = "lit"
    /\ s[i + 1].k = "s"
    /\ \/ s[i].v = "PART" /\ s[i + 2].k = "rom"
       \/ s[i].v = "Item" /\ s[i + 2].k = "d"

Range(f) == {f[x] : x \in DOMAIN f}

Min(set) == CHOOSE x \in set : \A y \in set : x <= y

\* a split on the markers themselves, whose first word is consumed
splitSections_Consuming(s) ==
    LET cuts == {i \in 2..Len(s) : IsSectionStart(s, i)}
        RECURSIVE pieces(_)
        pieces(p) ==
            LET nxt == {c \in cuts : c > p} IN
            IF nxt = {} THEN <<SubSeq(s, p, Len(s))>>
            ELSE <<SubSeq(s, p, Min(nxt) - 1)>> \o pieces(Min(nxt) + 1)
    IN pieces(1)

\* text.split(/(?=PART\s+[IVX]+|Item\s+\d+)/): an empty match at position 0
\* does not split, so the cuts are the marker positions after the first run.
splitSections(s) ==
    LET cuts == {i \in 2..Len(s) : IsSectionStart(s, i)}
        RECURSIVE pieces(_)
        pieces(p) ==
            LET nxt == {c \in cuts : c > p} IN
            IF nxt = {} THEN <<SubSeq(s, p, Len(s))>>
            ELSE <<SubSeq(s, p, Min(nxt) - 1)>> \o pieces(Min(nxt))
    IN pieces(1)

\* section.split(/[.!?]+/): a maximal run of terminators is one separator;
\* a separator at either end leaves an empty string there.
RECURSIVE splitFrom(_, _, _)
splitFrom(s, i, cur) ==
    IF i > Len(s) THEN <<cur>>
    ELSE IF s[i].k = "t"
         THEN IF i > 1 /\ s[i - 1].k = "t"
              THEN splitFrom(s, i + 1, cur)
              ELSE <<cur>> \o splitFrom(s, i + 1, <<>>)
         ELSE splitFrom(s, i + 1, Append(cur, s[i]))

splitSentences(section) == splitFrom(section, 1, <<>>)

\* the type labelling of a section
chunkTypeOf(section) ==
    IF includes(section, Item1Business) THEN "business"
    ELSE IF includes(section, Item2RiskFactors) THEN "risk_factors"
    ELSE IF includes(section, FinancialStatements) THEN "financial_statements"
    ELSE "general"

sectionNameOf(section) ==
    IF includes(section, Item1Business) THEN "Business Overview"
    ELSE IF includes(section, Item2RiskFactors) THEN "Risk Factors"
    ELSE IF includes(section, FinancialStatements) THEN "Financial Statements"
    ELSE ""

\* the overflow test of the packing loop
Overflows(currentChunk, sentence) ==
    /\ Length(currentChunk) + Length(sentence) > maxChunkSize
    /\ Length(currentChunk) > 0

\* whether the buffer left after the loop is pushed
TrailingKept(currentChunk) == Length(trim(currentChunk)) > 0

\* The packing loop over the sentences of one section, from sentence j on,
\* with the buffer currentChunk and the counter chunkIndex. Each element is
\* the content and index of one pushed chunk; sents is history, the
\* sentences that went into the buffer.
RECURSIVE packSentences(_, _, _, _, _)
packSentences(sentences, j, currentChunk, chunkIndex, sents) ==
    IF j > Len(sentences)
    THEN IF TrailingKept(currentChunk)
         THEN <<[content |-> trim(currentChunk), idx |-> chunkIndex,
                 sents |-> sents]>>
         ELSE <<>>
    ELSE LET sentence == sentences[j] IN
         IF Overflows(currentChunk, sentence)
         THEN <<[content |-> trim(currentChunk), idx |-> chunkIndex,
                 sents |-> sents]>>
              \o packSentences(sentences, j + 1, sentence, chunkIndex + 1,
                               <<sentence>>)
         ELSE packSentences(sentences, j + 1,
                            currentChunk \o sentence \o <<Dot>>, chunkIndex,
                            Append(sents, sentence))

\* an id without the index of the chunk in its section
chunkId_NoIndex(ticker, i, chunkIndex) ==
    (IF ticker = <<>> THEN "unknown" ELSE Join(ticker)) \o "_" \o ToString(i)

\* `${companyInfo.ticker || 'unknown'}_${i}_${chunkIndex}`
chunkId(ticker, i, chunkIndex) ==
    (IF ticker = <<>> THEN "unknown" ELSE Join(ticker))
        \o "_" \o ToString(i) \o "_" \o ToString(chunkIndex)

\* the packed buffers of sections[i] (1-based), none for a short section
packedOf(sections, i) ==
    LET section == trim(sections[i]) IN
    IF Length(section) < minSectionLength THEN <<>>
    ELSE packSentences(splitSentences(section), 1, <<>>, 0, <<>>)

\* the chunks pushed for sections[i]; the loop index of the code is i - 1
sectionChunks(sections, i, companyInfo, sourceFile) ==
    LET section == trim(sections[i])
        packed == packedOf(sections, i)
    IN [c \in 1..Len(packed) |->
          [id |-> chunkId(companyInfo.ticker, i - 1, packed[c].idx),
           company_name |-> companyInfo.name,
           ticker_symbol |-> companyInfo.ticker,
           content |-> packed[c].content,
           chunk_type |-> chunkTypeOf(section),
           metadata |-> [source_file |-> sourceFile,
                         section |-> sectionNameOf(section)],
           vector |-> EmptyVector]]

RECURSIVE chunksFrom(_, _, _, _)
chunksFrom(sections, i, companyInfo, sourceFile) ==
    IF i > Len(sections) THEN <<>>
    ELSE sectionChunks(sections, i, companyInfo, sourceFile)
            \o chunksFrom(sections, i + 1, companyInfo, sourceFile)

chunkDocument(text, companyInfo, sourceFile) ==
    chunksFrom(splitSections(text), 1, companyInfo, sourceFile)

\* history: for each chunk of chunkDocument(text, ..), in the same order,
\* the section index, the chunk index and the sentences packed in it
RECURSIVE partsFrom(_, _)
partsFrom(sections, i) ==
    IF i > Len(sections) THEN <<>>
    ELSE LET packed == packedOf(sections, i) IN
         [c \in 1..Len(packed) |->
            [sec |-> i - 1, idx |-> packed[c].idx, sents |-> packed[c].sents]]
         \o partsFrom(sections, i + 1)

chunkParts(text) == partsFrom(splitSections(text), 1)

\* chunkDocument is not being called
ChunkIdle ==
    /\ cText = <<>>
    /\ cInfo = [name |-> <<>>, ticker |-> <<>>]
    /\ cChunks = <<>>
    /\ cParts = <<>>
    /\ cPc = "start"
    /\ ExtractIdle
    /\ MetricsIdle

----------------------------------------------------------------------------
(* extractCompanyInfo: the fields chunkDocument reads *)

\* A phrase at the start of a line that matches the company-name pattern is
\* one run of class "name"; a run of letters is class "up" or "lo", and the
\* first five letters of a longer word are a run of their own, so that the
\* capture of [A-Z]{1,5} is one run. The inputs put no literal word right
\* after the ticker label.
TickerLabel == Lit("Ticker Symbol:", 14)

IsLetters(t) == t.k \in {"up", "lo"}

\* /Ticker Symbol:\s*([A-Z]{1,5})/i matches at run j
tickerMatchAt(s, j) ==
    /\ s[j] = TickerLabel
    /\ \/ j + 1 <= Len(s) /\ IsLetters(s[j + 1])
       \/ j + 2 <= Len(s) /\ s[j + 1].k = "s" /\ IsLetters(s[j + 2])

tickerOf(text) ==
    LET hits == {j \in 1..Len(text) : tickerMatchAt(text, j)} IN
    IF hits = {} THEN <<>>
    ELSE LET j == Min(hits) IN
         IF IsLetters(text[j + 1]) THEN text[j + 1].c ELSE text[j + 2].c

nameOf(text) ==
    LET hits == {j \in 1..Len(text) : text[j].k = "name"} IN
    IF hits = {} THEN <<>> ELSE text[Min(hits)].c

\* A label the patterns search for in any case is one run of class "lab":
\* v is the label in lower case, c holds the case it is written in.
LabelLen(word) ==
    CASE word = "industry:" -> 9
      [] word = "employees:" -> 10
      [] word = "headquarters:" -> 13
      [] word = "revenue" -> 7
      [] word = "gross profit" -> 12
      [] word = "operating income" -> 16
      [] word = "net income" -> 10
      [] word = "total assets" -> 12
      [] word = "cash and cash equivalents" -> 25
      [] word = "total liabilities" -> 17
      [] word = "long-term debt" -> 14
      [] word = "shareholders' equity" -> 20

Label(word, case) == [k |-> "lab", n |-> LabelLen(word), v |-> word, c |-> <<case>>]

\* the first run at or after p that is not white space: what \s* skips
RECURSIVE skipSpace(_, _)
skipSpace(s, p) ==
    IF p <= Len(s) /\ IsSpace(s[p]) THEN skipSpace(s, p + 1) ELSE p

\* where ([\d,]+) begins when label\s*\$?([\d,]+) matches at run j, else 0
amountAt(s, j, word) ==
    IF s[j].k # "lab" \/ s[j].v # word THEN 0
    ELSE LET q == skipSpace(s, j + 1)
             r == IF q <= Len(s) /\ s[q] = Dollar THEN q + 1 ELSE q
         IN IF r <= Len(s) /\ s[r].k = "amt" THEN r ELSE 0

\* match[1] of text.match(/label\s*\$?([\d,]+)/i), <<>> when there is no match
amountOf(s, word) ==
    LET hits == {j \in 1..Len(s) : amountAt(s, j, word) # 0} IN
    IF hits = {} THEN <<>> ELSE s[amountAt(s, Min(hits), word)].c

\* .replace(/,/g, '')
stripCommas(chars) == SelectSeq(chars, LAMBDA ch : ch # ",")

\* parseInt of a string of digits: NaN for the empty string
parseInt(chars) ==
    IF chars = <<>> THEN NaN ELSE [nan |-> FALSE, n |-> DigitsVal(chars)]

\* x * 1000
times1000(x) == IF x.nan THEN NaN ELSE [nan |-> FALSE, n |-> x.n * 1000]

\* the fields of FinancialData with the labels of their patterns, in the
\* order the patterns are applied
FinancialFields ==
    << [key |-> "revenue", label |-> "revenue"],
       [key |-> "gross_profit", label |-> "gross profit"],
       [key |-> "operating_income", label |-> "operating income"],
       [key |-> "net_income", label |-> "net income"],
       [key |-> "total_assets", label |-> "total assets"],
       [key |-> "cash", label |-> "cash and cash equivalents"],
       [key |-> "total_liabilities", label |-> "total liabilities"],
       [key |-> "long_term_debt", label |-> "long-term debt"],
       [key |-> "shareholders_equity", label |-> "shareholders' equity"] >>

labelOfKey(fields, key) ==
    fields[CHOOSE f \in DOMAIN fields : fields[f].key = key].label

\* a financialData object that holds every field, 0 for an unmatched one
financialDataOf_AllKeys(text) ==
    [key \in {FinancialFields[f].key : f \in DOMAIN FinancialFields} |->
        IF amountOf(text, labelOfKey(FinancialFields, key)) = <<>>
        THEN [nan |-> FALSE, n |-> 0]
        ELSE times1000(parseInt(stripCommas(
                 amountOf(text, labelOfKey(FinancialFields, key)))))]

\* the financialData object: its keys and their values
financialDataOf(text) ==
    LET keys == {FinancialFields[f].key : f \in
                    {g \in DOMAIN FinancialFields :
                        amountOf(text, FinancialFields[g].label) # <<>>}}
    IN [key \in keys |->
          times1000(parseInt(stripCommas(
              amountOf(text, labelOfKey(FinancialFields, key)))))]

Absent == [present |-> FALSE, nan |-> FALSE, n |-> 0, value |-> <<>>]
PresentNumber(x) == [present |-> TRUE, nan |-> x.nan, n |-> x.n, value |-> <<>>]
PresentString(s) == [present |-> TRUE, nan |-> FALSE, n |-> 0, value |-> s]

\* the runs from p up to the next line break
RECURSIVE lineFrom(_, _)
lineFrom(s, p) ==
    IF p > Len(s) \/ s[p].k = "nl" THEN <<>> ELSE <<s[p]>> \o lineFrom(s, p + 1)

\* label\s*([^\n\r]+) matches at run j: some character that is no line break
\* follows the label and the white space after it; when only white space
\* follows, the pattern backtracks to capture a space
lineMatchAt(s, j, word) ==
    /\ s[j].k = "lab"
    /\ s[j].v = word
    /\ \/ skipSpace(s, j + 1) <= Len(s)
       \/ \E p \in (j + 1)..Len(s) : s[p].k = "s"

\* match[1].trim() of text.match(/label\s*([^\n\r]+)/i)
lineOf(s, word) ==
    LET hits == {j \in 1..Len(s) : lineMatchAt(s, j, word)} IN
    IF hits = {} THEN Absent
    ELSE LET q == skipSpace(s, Min(hits) + 1) IN
         PresentString(IF q <= Len(s) THEN trim(lineFrom(s, q)) ELSE <<>>)

\* parseInt(match[1].replace(/,/g, '')) of /Employees:\s*([\d,]+)/i
employeesOf(s) ==
    LET hits == {j \in 1..Len(s) :
                    /\ s[j].k = "lab"
                    /\ s[j].v = "employees:"
                    /\ skipSpace(s, j + 1) <= Len(s)
                    /\ s[skipSpace(s, j + 1)].k = "amt"}
    IN IF hits = {} THEN Absent
       ELSE PresentNumber(parseInt(stripCommas(s[skipSpace(s, Min(hits) + 1)].c)))

extractCompanyInfo(text) ==
    [name |-> nameOf(text),
     ticker |-> tickerOf(text),
     industry |-> lineOf(text, "industry:"),
     employees |-> employeesOf(text),
     headquarters |-> lineOf(text, "headquarters:"),
     financial_data |->
        [present |-> DOMAIN financialDataOf(text) # {},
         of |-> financialDataOf(text)]]

----------------------------------------------------------------------------
(* The ingestion service *)

embeddingDim == 1536

\* the vector the embedding service returns for a text
embedding(text) == [dim |-> embeddingDim, zero |-> FALSE, of |-> text]

sampleVector == [dim |-> embeddingDim, zero |-> TRUE, of |-> <<>>]

sampleData ==
    <<[id |-> "sample_chunk_id",
       company_name |-> <<"S", "a", "m", "p", "l", "e", " ",
                          "C", "o", "m", "p", "a", "n", "y">>,
       ticker_symbol |-> <<"S", "M", "P", "L">>,
       content |-> <<W(58), Dot>>,
       chunk_type |-> "general",
       metadata |-> [source_file |-> "sample.pdf", section |-> "Sample Section"],
       vector |-> sampleVector]>>

\* table.delete('id = "sample_chunk_id"')
deleteSample(rows) == SelectSeq(rows, LAMBDA r : r.id # "sample_chunk_id")

extLower(ext) == IF ext = ".PDF" THEN ".pdf" ELSE ext

\* files.filter(file => path.extname(file).toLowerCase() === '.pdf')
pdfFiles(fs) == SelectSeq(fs, LAMBDA f : extLower(f.ext) = ".pdf")

basename(f) == f.name \o f.ext

Err(msg, doc) == [msg |-> msg, doc |-> doc]

\* where the directory loop goes after document fileIdx of n
AfterDoc(n) ==
    IF fileIdx < n THEN [pc |-> "read", i |-> fileIdx + 1] ELSE [pc |-> "done", i |-> fileIdx]

\* a directory loop whose catch throws again
DirCatch_Rethrow(next) == [pc |-> "raised", i |-> next.i]

\* the catch of the directory loop: the loop goes on
DirCatch(next) == next

\* an embedding call that is not awaited
AwaitEmbedding_None == "embed"

\* await this.generateEmbedding(chunk.content)
AwaitEmbedding == "await"

\* an embedding loop that is left after its first chunk
LoopDone_AfterFirst(cs, pos) == pos > 1

\* the for-of loop over docChunks is over
LoopDone(cs, pos) == pos > Len(cs)

NoLogs ==
    /\ embedLog = <<>>
    /\ embedFails = <<>>
    /\ insertLog = <<>>
    /\ errLog = <<>>
    /\ okLog = <<>>

NoLogs1 ==
    /\ embedLog' = <<>>
    /\ embedFails' = <<>>
    /\ insertLog' = <<>>
    /\ errLog' = <<>>
    /\ okLog' = <<>>

IngestIdle ==
    /\ store = [exists |-> FALSE, rows |-> <<>>]
    /\ table = "null"
    /\ pc = "off"
    /\ files = <<>>
    /\ fileIdx = 0
    /\ docChunks = <<>>
    /\ chunkPos = 0
    /\ inFlight = 0
    /\ addPending = FALSE
    /\ NoLogs
    /\ rows0 = <<>>
    /\ runs = 0

\* main: await vectorDB.initialize()
CallInitialize ==
    /\ pc = "main"
    /\ pc' = "openTable"
    /\ UNCHANGED <<chunkVars, queryVars, store, table, files, fileIdx, docChunks, chunkPos, inFlight,
                   addPending, embedLog, embedFails, insertLog, errLog, okLog,
                   rows0, runs>>

\* a caller of the exported class that ingests without initialize()
SkipInitialize ==
    /\ pc = "main"
    /\ pc' = "dir"
    /\ UNCHANGED <<chunkVars, queryVars, store, table, files, fileIdx, docChunks, chunkPos, inFlight,
                   addPending, embedLog, embedFails, insertLog, errLog, okLog,
                   rows0, runs>>

\* initialize: this.db.openTable('company_documents') answers
OpenTable ==
    /\ pc = "openTable"
    /\ \E ok \in BOOLEAN :
          /\ ok => store.exists
          /\ IF ok THEN table' = "open" /\ pc' = "initialized"
                   ELSE table' = table /\ pc' = "createTable"
    /\ UNCHANGED <<chunkVars, queryVars, store, files, fileIdx, docChunks, chunkPos, inFlight, addPending,
                   embedLog, embedFails, insertLog, errLog, okLog, rows0, runs>>

\* initialize: this.db.createTable('company_documents', sampleData) answers
CreateTable ==
    /\ pc = "createTable"
    /\ \E ok \in BOOLEAN :
          /\ ok => ~store.exists
          /\ IF ok
             THEN /\ store' = [exists |-> TRUE, rows |-> sampleData]
                  /\ table' = "open"
                  /\ pc' = "delete"
             ELSE /\ pc' = "raised"
                  /\ UNCHANGED <<store, table>>
    /\ UNCHANGED <<chunkVars, queryVars, files, fileIdx, docChunks, chunkPos, inFlight, addPending,
                   embedLog, embedFails, insertLog, errLog, okLog, rows0, runs>>

\* initialize: this.table.delete('id = "sample_chunk_id"') answers
DeleteSample ==
    /\ pc = "delete"
    /\ \E ok \in BOOLEAN :
          IF ok
          THEN /\ store' = [store EXCEPT !.rows = deleteSample(@)]
               /\ pc' = "initialized"
          ELSE /\ pc' = "raised"
               /\ UNCHANGED store
    /\ UNCHANGED <<chunkVars, queryVars, table, files, fileIdx, docChunks, chunkPos, inFlight, addPending,
                   embedLog, embedFails, insertLog, errLog, okLog, rows0, runs>>

\* main: await vectorDB.ingestPDFDirectory(..)
MainIngest ==
    /\ pc = "initialized"
    /\ pc' = "dir"
    /\ UNCHANGED <<chunkVars, queryVars, store, table, files, fileIdx, docChunks, chunkPos, inFlight,
                   addPending, embedLog, embedFails, insertLog, errLog, okLog,
                   rows0, runs>>

\* ingestPDFDirectory up to its loop
DirStart ==
    /\ pc = "dir"
    /\ rows0' = store.rows
    /\ \E isDirectory \in BOOLEAN :
          IF ~isDirectory
          THEN /\ errLog' = Append(errLog, Err("Error processing directory", 0))
               /\ pc' = "raised"
               /\ fileIdx' = fileIdx
          ELSE /\ errLog' = errLog
               /\ IF Len(pdfFiles(files)) = 0
                  THEN pc' = "done" /\ fileIdx' = fileIdx
                  ELSE pc' = "read" /\ fileIdx' = 1
    /\ UNCHANGED <<chunkVars, queryVars, store, table, files, docChunks, chunkPos, inFlight,
                   addPending, embedLog, embedFails, insertLog, okLog, runs>>

\* ingestPDF failed with the console lines msgs: its own catch logs and throws
\* again, the catch of the directory loop logs
FailDoc(msgs) ==
    /\ errLog' = errLog \o msgs
                    \o <<Err("Error processing PDF", fileIdx), Err("Failed to process", fileIdx)>>
    /\ LET next == DirCatch(AfterDoc(Len(pdfFiles(files)))) IN
          pc' = next.pc /\ fileIdx' = next.i
    /\ docChunks' = <<>>
    /\ chunkPos' = 0

\* ingestPDF returned
DocDone ==
    /\ okLog' = Append(okLog, fileIdx)
    /\ LET next == AfterDoc(Len(pdfFiles(files))) IN
          pc' = next.pc /\ fileIdx' = next.i
    /\ docChunks' = <<>>
    /\ chunkPos' = 0

\* ingestPDF: read, parse, extractCompanyInfo, chunkDocument
ReadParse ==
    /\ pc = "read"
    /\ LET f == pdfFiles(files)[fileIdx] IN
       \E ok \in BOOLEAN :
          IF ok
          THEN /\ docChunks' = chunkDocument(f.text, extractCompanyInfo(f.text),
                                          basename(f))
               /\ chunkPos' = 1
               /\ pc' = "embed"
               /\ UNCHANGED <<fileIdx, errLog>>
          ELSE FailDoc(<<>>)
    /\ UNCHANGED <<chunkVars, queryVars, store, table, files, inFlight, addPending,
                   embedLog, embedFails, insertLog, okLog, rows0, runs>>

\* ingestPDF: generateEmbedding(chunk.content) is called
EmbedIssue ==
    /\ pc = "embed"
    /\ ~LoopDone(docChunks, chunkPos)
    /\ inFlight' = inFlight + 1
    /\ embedLog' = Append(embedLog, <<fileIdx, chunkPos>>)
    /\ pc' = AwaitEmbedding
    /\ UNCHANGED <<chunkVars, queryVars, store, table, files, fileIdx, docChunks, chunkPos, addPending,
                   embedFails, insertLog, errLog, okLog, rows0, runs>>

\* an embedding loop that drops the vector it awaited
assignVector_Skip(cs, pos, v) == cs

\* chunk.vector = <the embedding awaited>
assignVector(cs, pos, v) == [cs EXCEPT ![pos].vector = v]

\* ingestPDF: the embedding call answers, the pacing delay passes
EmbedReturn ==
    /\ pc = "await"
    /\ inFlight' = inFlight - 1
    /\ \E ok \in BOOLEAN :
          IF ok
          THEN /\ docChunks' = assignVector(docChunks, chunkPos,
                                             embedding(docChunks[chunkPos].content))
               /\ chunkPos' = chunkPos + 1
               /\ pc' = "embed"
               /\ UNCHANGED <<fileIdx, errLog, embedFails>>
          ELSE /\ embedFails' = Append(embedFails, <<fileIdx, chunkPos>>)
               /\ FailDoc(<<Err("Error generating embedding", fileIdx)>>)
    /\ UNCHANGED <<chunkVars, queryVars, store, table, files, addPending, embedLog,
                   insertLog, okLog, rows0, runs>>

\* ingestPDF: this.table.add(docChunks) is called
AddIssue ==
    /\ pc = "embed"
    /\ LoopDone(docChunks, chunkPos)
    /\ table # "null"
    /\ addPending' = TRUE
    /\ insertLog' = Append(insertLog, [doc |-> fileIdx, rows |-> docChunks])
    /\ pc' = "add"
    /\ UNCHANGED <<chunkVars, queryVars, store, table, files, fileIdx, docChunks, chunkPos, inFlight,
                   embedLog, embedFails, errLog, okLog, rows0, runs>>

\* ingestPDF: this.table is null, nothing is added
SkipAdd ==
    /\ pc = "embed"
    /\ LoopDone(docChunks, chunkPos)
    /\ table = "null"
    /\ DocDone
    /\ UNCHANGED <<chunkVars, queryVars, store, table, files, inFlight, addPending,
                   embedLog, embedFails, insertLog, errLog, rows0, runs>>

\* an insert that replaces the rows whose id and source file it brings again
tableAdd_Upsert(rows, cs) ==
    SelectSeq(rows, LAMBDA r :
        \A c \in DOMAIN cs :
            r.id # cs[c].id \/ r.metadata.source_file # cs[c].metadata.source_file)
    \o cs

\* this.table.add(chunks): the rows are appended
tableAdd(rows, cs) == rows \o cs

\* ingestPDF: table.add answers
AddReturn ==
    /\ pc = "add"
    /\ addPending' = FALSE
    /\ \E ok \in BOOLEAN :
          IF ok
          THEN /\ store' = [store EXCEPT !.rows = tableAdd(@, docChunks)]
               /\ DocDone
               /\ UNCHANGED errLog
          ELSE /\ FailDoc(<<>>)
               /\ UNCHANGED <<store, okLog>>
    /\ UNCHANGED <<chunkVars, queryVars, table, files, inFlight, embedLog, embedFails,
                   insertLog, rows0, runs>>

MaxRuns == 2

\* the process has ended; another one is started on the same database
Restart ==
    /\ pc \in {"done", "raised"}
    /\ runs < MaxRuns
    /\ runs' = runs + 1
    /\ table' = "null"
    /\ pc' = "main"
    /\ fileIdx' = 0
    /\ docChunks' = <<>>
    /\ chunkPos' = 0
    /\ inFlight' = 0
    /\ addPending' = FALSE
    /\ NoLogs1
    /\ rows0' = <<>>
    /\ UNCHANGED <<chunkVars, queryVars, store, files>>

----------------------------------------------------------------------------
(* The data service: JavaScript values of a request body *)

Undefined == [t |-> "undefined", n |-> 0, s |-> <<>>]
Null == [t |-> "null", n |-> 0, s |-> <<>>]
Num(n) == [t |-> "number", n |-> n, s |-> <<>>]
Str(chars) == [t |-> "string", n |-> 0, s |-> chars]

\* ToNumber, as the relational operators apply it to an operand
ToNumber(x) ==
    CASE x.t = "number" -> [nan |-> FALSE, n |-> x.n]
      [] x.t = "null" -> [nan |-> FALSE, n |-> 0]
      [] x.t = "undefined" -> NaN
      [] x.t = "string" ->
            IF \A p \in DOMAIN x.s : IsDigit(x.s[p])
            THEN [nan |-> FALSE, n |-> DigitsVal(x.s)]
            ELSE NaN

\* x < y and x > y where y is a number: false when x converts to NaN
JsLess(x, y) == ~ToNumber(x).nan /\ ToNumber(x).n < y
JsGreater(x, y) == ~ToNumber(x).nan /\ ToNumber(x).n > y

\* !x
JsNot(x) ==
    CASE x.t = "number" -> x.n = 0
      [] x.t = "string" -> x.s = <<>>
      [] OTHER -> TRUE

LowerChars == <<"a", "b", "c", "d", "e", "f", "g", "h", "i", "j", "k", "l", "m",
                "n", "o", "p", "q", "r", "s", "t", "u", "v", "w", "x", "y", "z">>
UpperChars == <<"A", "B", "C", "D", "E", "F", "G", "H", "I", "J", "K", "L", "M",
                "N", "O", "P", "Q", "R", "S", "T", "U", "V", "W", "X", "Y", "Z">>

\* String.prototype.toUpperCase
toUpperCase(chars) ==
    [p \in DOMAIN chars |->
        IF \E l \in DOMAIN LowerChars : LowerChars[l] = chars[p]
        THEN UpperChars[CHOOSE l \in DOMAIN LowerChars : LowerChars[l] = chars[p]]
        ELSE chars[p]]

\* hay has needle as a substring
Contains(hay, needle) ==
    \E p \in 0..(Len(hay) - Len(needle)) :
        SubSeq(hay, p + 1, p + Len(needle)) = needle

----------------------------------------------------------------------------
(* The data service: the storage table as the query path uses it *)

\* The where clause is the sequence of its terms and operators.
Like(chars) == [op |-> "LIKE", s |-> chars, ty |-> ""]
TickerEq(chars) == [op |-> "TICKER=", s |-> chars, ty |-> ""]
TypeEq(type) == [op |-> "TYPE=", s |-> <<>>, ty |-> type]
Or == [op |-> "OR", s |-> <<>>, ty |-> ""]
\* a comparison of two string literals, 'x' = 'y'
ConstEq(x, y) ==
    [op |-> "CONST", s |-> <<>>, ty |-> IF x = y THEN "true" ELSE "false"]
\* a clause the storage cannot parse
SyntaxError == [op |-> "ERROR", s |-> <<>>, ty |-> ""]
And == [op |-> "AND", s |-> <<>>, ty |-> ""]

\* one comparison of the where clause on a row
TermHolds(term, row) ==
    CASE term.op = "LIKE" -> Contains(row.company_name, term.s)
      [] term.op = "TICKER=" -> row.ticker_symbol = term.s
      [] term.op = "TYPE=" -> row.chunk_type = term.ty
      [] term.op = "CONST" -> term.ty = "true"

\* the pieces of a clause between the occurrences of an operator
RECURSIVE SplitOn(_, _, _, _)
SplitOn(clause, op, p, cur) ==
    IF p > Len(clause) THEN <<cur>>
    ELSE IF clause[p] = op
         THEN <<cur>> \o SplitOn(clause, op, p + 1, <<>>)
         ELSE SplitOn(clause, op, p + 1, Append(cur, clause[p]))

\* SQL evaluation of a where clause without parentheses: AND binds tighter
\* than OR
WhereHolds(clause, row) ==
    \E d \in Range(SplitOn(clause, Or, 1, <<>>)) :
        \A a \in Range(SplitOn(d, And, 1, <<>>)) :
            \A term \in Range(a) : TermHolds(term, row)

\* filters.join(' AND ')
RECURSIVE joinAnd(_)
joinAnd(filters) ==
    IF filters = <<>> THEN <<>>
    ELSE IF Len(filters) = 1 THEN filters[1]
    ELSE filters[1] \o <<And>> \o joinAnd(Tail(filters))

\* the filters array of performVectorSearch
searchFilters(companyFilter, chunkTypeFilter) ==
    (IF companyFilter # <<>>
     THEN << <<Like(companyFilter), Or, TickerEq(toUpperCase(companyFilter))>> >>
     ELSE <<>>)
    \o (IF chunkTypeFilter # "" THEN << <<TypeEq(chunkTypeFilter)>> >> ELSE <<>>)

\* the positions of rows in ascending order of distance
RECURSIVE Ranked(_, _)
Ranked(posns, dist) ==
    IF posns = {} THEN <<>>
    ELSE LET first == CHOOSE p \in posns :
                 \A q \in posns : dist[p] < dist[q] \/ (dist[p] = dist[q] /\ p <= q)
         IN <<first>> \o Ranked(posns \ {first}, dist)

\* table.search(v).limit(limit).where(clause).toArray() with the distances
\* dist of the rows to v: the nearest limit rows that satisfy the clause
searchRows(rows, dist, limit, clause) ==
    LET hits == {p \in DOMAIN rows : clause = <<>> \/ WhereHolds(clause, rows[p])}
        order == Ranked(hits, dist)
    IN [p \in 1..(IF limit < Len(order) THEN limit ELSE Len(order)) |->
          [row |-> rows[order[p]], distance |-> dist[order[p]]]]

\* the 1 of 1 - result._distance; distances are in hundredths
One == 100

\* result._distance ? (1 - result._distance) : null
similarityScore(distance) ==
    IF distance # 0 THEN [null |-> FALSE, n |-> One - distance]
    ELSE [null |-> TRUE, n |-> 0]

\* the result mapping of performVectorSearch
searchResults(raw) ==
    [p \in DOMAIN raw |->
        [id |-> raw[p].row.id,
         company_name |-> raw[p].row.company_name,
         ticker_symbol |-> raw[p].row.ticker_symbol,
         content |-> raw[p].row.content,
         chunk_type |-> raw[p].row.chunk_type,
         metadata |-> raw[p].row.metadata,
         similarity_score |-> similarityScore(raw[p].distance)]]

----------------------------------------------------------------------------
(* The financial summaries: extractFinancialMetrics, summarizeFinancials *)

\* String.prototype.toLowerCase on characters
toLowerChars(chars) ==
    [p \in DOMAIN chars |->
        IF \E u \in DOMAIN UpperChars : UpperChars[u] = chars[p]
        THEN LowerChars[CHOOSE u \in DOMAIN UpperChars : UpperChars[u] = chars[p]]
        ELSE chars[p]]

\* String.prototype.toLowerCase on a text
toLowerCase(s) ==
    [p \in DOMAIN s |->
        CASE s[p].k = "lab" -> Label(s[p].v, "lower")
          [] s[p].k \in {"up", "name"} -> Lo(toLowerChars(s[p].c))
          [] OTHER -> s[p]]

\* chunks.map(chunk => chunk.content).join(' ')
RECURSIVE joinSpace(_)
joinSpace(contents) ==
    IF contents = <<>> THEN <<>>
    ELSE IF Len(contents) = 1 THEN contents[1]
    ELSE contents[1] \o <<S(1)>> \o joinSpace(Tail(contents))

\* the patterns object of extractFinancialMetrics
MetricPatterns ==
    << [key |-> "revenue", label |-> "revenue"],
       [key |-> "net_income", label |-> "net income"],
       [key |-> "gross_profit", label |-> "gross profit"],
       [key |-> "operating_income", label |-> "operating income"],
       [key |-> "total_assets", label |-> "total assets"],
       [key |-> "cash", label |-> "cash and cash equivalents"],
       [key |-> "total_liabilities", label |-> "total liabilities"],
       [key |-> "shareholders_equity", label |-> "shareholders' equity"] >>

\* `$${match[1]}`
dollarOf(chars) == <<"$">> \o chars

\* the metrics object extractFinancialMetrics returns
extractFinancialMetrics(contents) ==
    LET allContent == toLowerCase(joinSpace(contents))
        keys == {MetricPatterns[f].key : f \in
                    {g \in DOMAIN MetricPatterns :
                        amountOf(allContent, MetricPatterns[g].label) # <<>>}}
    IN [key \in keys |->
          dollarOf(amountOf(allContent, labelOfKey(MetricPatterns, key)))]

\* the three patterns of summarizeFinancials with the titles of their entries
SummaryPatterns ==
    << [key |-> "Revenue", label |-> "revenue"],
       [key |-> "Net Income", label |-> "net income"],
       [key |-> "Total Assets", label |-> "total assets"] >>

\* the summary array of summarizeFinancials; the string returned is its
\* entries joined by ', ', or 'No financial summary available' when it is
\* empty
summarizeFinancials(contents) ==
    LET relevantInfo == toLowerCase(joinSpace(contents))
        hit(f) == amountOf(relevantInfo, SummaryPatterns[f].label) # <<>>
        entry(f) == [title |-> SummaryPatterns[f].key,
                     value |-> dollarOf(amountOf(relevantInfo,
                                                 SummaryPatterns[f].label))]
    IN (IF hit(1) THEN <<entry(1)>> ELSE <<>>)
       \o (IF hit(2) THEN <<entry(2)>> ELSE <<>>)
       \o (IF hit(3) THEN <<entry(3)>> ELSE <<>>)

----------------------------------------------------------------------------
(* The data service: listCompanies, getCompanyByTicker, getDatabaseStats *)

\* result.ticker_symbol || result.company_name
companyKey(row) ==
    IF row.ticker_symbol # <<>> THEN row.ticker_symbol ELSE row.company_name

\* the value uniqueCompanies.set stores for a row
companyEntry(row) ==
    [company_name |-> row.company_name, ticker_symbol |-> row.ticker_symbol]

\* results.forEach(...) of listCompanies: keys is uniqueCompanies so far
RECURSIVE listFrom(_, _, _)
listFrom(rows, p, keys) ==
    IF p > Len(rows) THEN <<>>
    ELSE IF companyKey(rows[p]) \in keys THEN listFrom(rows, p + 1, keys)
    ELSE <<companyEntry(rows[p])>>
            \o listFrom(rows, p + 1, keys \cup {companyKey(rows[p])})

\* a list with one entry for every row
listCompanies_All(rows) == [p \in DOMAIN rows |-> companyEntry(rows[p])]

\* Array.from(uniqueCompanies.values())
listCompanies(rows) == listFrom(rows, 1, {})

Quote == "'"

HasQuote(chars) == \E p \in DOMAIN chars : chars[p] = Quote

firstQuote(chars) == Min({p \in DOMAIN chars : chars[p] = Quote})

beforeQuote(chars) == SubSeq(chars, 1, firstQuote(chars) - 1)

afterQuote(chars) == SubSeq(chars, firstQuote(chars) + 1, Len(chars))

\* what follows a string literal, when it is  OR 'x'='y'  and nothing more
orLiteralEq(first, rest) ==
    IF Len(rest) >= 5 /\ SubSeq(rest, 1, 5) = <<" ", "O", "R", " ", Quote>>
       /\ HasQuote(SubSeq(rest, 6, Len(rest)))
    THEN LET r1 == SubSeq(rest, 6, Len(rest))
             r2 == afterQuote(r1)
         IN IF Len(r2) >= 2 /\ r2[1] = "=" /\ r2[2] = Quote
               /\ HasQuote(SubSeq(r2, 3, Len(r2)))
               /\ afterQuote(SubSeq(r2, 3, Len(r2))) = <<>>
            THEN <<first, Or,
                   ConstEq(beforeQuote(r1), beforeQuote(SubSeq(r2, 3, Len(r2))))>>
            ELSE <<SyntaxError>>
    ELSE <<SyntaxError>>

\* `ticker_symbol = '${t}'` as the storage reads it: the string literal ends
\* at the first quote, which is the closing quote of the template unless t
\* holds a quote itself (the inputs hold no two quotes in a row, which
\* would stand for a quote inside the literal)
tickerClause(t) ==
    LET text == t \o <<Quote>> IN
    IF afterQuote(text) = <<>> THEN <<TickerEq(beforeQuote(text))>>
    ELSE orLiteralEq(TickerEq(beforeQuote(text)), afterQuote(text))

\* const { limit = 10 } = req.query
companyLimitOf(q) == IF q.t = "undefined" THEN Num(10) ELSE q

\* table.query().where(clause).limit(limit).toArray() and the result mapping
getCompanyByTicker(rows, ticker, limit) ==
    LET hits == SelectSeq(rows,
                    LAMBDA r : WhereHolds(tickerClause(toUpperCase(ticker)), r))
        kept == SubSeq(hits, 1, IF limit < Len(hits) THEN limit ELSE Len(hits))
    IN [p \in DOMAIN kept |->
          [id |-> kept[p].id,
           company_name |-> kept[p].company_name,
           ticker_symbol |-> kept[p].ticker_symbol,
           content |-> kept[p].content,
           chunk_type |-> kept[p].chunk_type,
           metadata |-> kept[p].metadata]]

\* a counter that starts again at 1
increment_Reset(counts, key) ==
    IF key \in DOMAIN counts THEN [counts EXCEPT ![key] = 1]
    ELSE counts @@ (key :> 1)

\* counts[key] = (counts[key] || 0) + 1
increment(counts, key) ==
    IF key \in DOMAIN counts THEN [counts EXCEPT ![key] = @ + 1]
    ELSE counts @@ (key :> 1)

RECURSIVE typeCounts(_, _, _)
typeCounts(rows, p, counts) ==
    IF p > Len(rows) THEN counts
    ELSE typeCounts(rows, p + 1, increment(counts, rows[p].chunk_type))

RECURSIVE companyCounts(_, _, _)
companyCounts(rows, p, counts) ==
    IF p > Len(rows) THEN counts
    ELSE companyCounts(rows, p + 1, increment(counts, companyKey(rows[p])))

\* the stats object of getDatabaseStats
getDatabaseStats(rows) ==
    [total_chunks |-> Len(rows),
     unique_companies |-> Cardinality({companyKey(rows[p]) : p \in DOMAIN rows}),
     chunk_types |-> typeCounts(rows, 1, <<>>),
     companies |-> companyCounts(rows, 1, <<>>)]

\* the content mentions one of the words getCompanyFinancials looks for:
\* revenue, income, profit, assets, cash, liabilities
mentionsFinancial(content) ==
    \E p \in DOMAIN content :
        /\ content[p].k = "lab"
        /\ content[p].v \in {"revenue", "gross profit", "operating income",
                             "net income", "total assets",
                             "cash and cash equivalents", "total liabilities"}

\* the predicate of results.filter(..) in getCompanyFinancials
isFinancialChunk(r) ==
    \/ r.chunk_type = "financial_statements"
    \/ mentionsFinancial(r.content)

\* a JavaScript array, and a number, as the value of financial_chunks
ArrayOf(items) == [t |-> "array", n |-> 0, items |-> items]
CountOf(n) == [t |-> "number", n |-> n, items |-> <<>>]

\* what getCompanyFinancials returns for the results of its search
companyFinancials(companyName, includeContext, results) ==
    LET financialChunks == SelectSeq(results, isFinancialChunk)
    IN [company_name |-> companyName,
        financial_summary |->
            extractFinancialMetrics([c \in DOMAIN financialChunks |->
                                        financialChunks[c].content]),
        financial_chunks |-> IF includeContext THEN ArrayOf(financialChunks)
                             ELSE CountOf(Len(financialChunks)),
        context |-> IF includeContext THEN financialChunks ELSE <<>>]

\* results.financial_chunks?.length || 0: a number has no length
resultsCountOf(financial_chunks) ==
    IF financial_chunks.t = "array" THEN Len(financial_chunks.items) ELSE 0

----------------------------------------------------------------------------
(* The data service: requests and tables *)

MaxRows == 2

Batz == <<"B", "a", "t", "z">>

\* names and tickers as extractCompanyInfo finds them: a name ends in Inc,
\* Corp, Ltd, .., a ticker is one to five letters
BatzCorp == <<"B", "a", "t", "z", " ", "C", "o", "r", "p">>
ABInc == <<"A", "B", "I", "n", "c">>

\* the text of a filing with 'Ticker Symbol: abcd'
LowerTickerText ==
    <<Name(<<"A", "B", "C", "D", " ", "C", "o", "r", "p">>), NL, TickerLabel,
      S(1), Lo(<<"a", "b", "c", "d">>), NL, W(200), Dot>>

QueryValues == {Undefined, Str(<<>>), Str(<<"r", "e", "v">>), Num(7)}

LimitValues ==
    {Undefined, Null, Num(0), Num(1), Num(100), Num(101),
     Str(<<"5", "0">>), Str(<<"a", "b", "c">>)}

RequestBodies ==
    [query : QueryValues, limit : LimitValues,
     company_filter : {<<>>, ABCD, Batz, <<"a", "b", "c", "d">>},
     chunk_type_filter : {"", "business"}]

StoredRowWith(name, ticker, type, content) ==
    [id |-> chunkId(ticker, 1, 0),
     company_name |-> name,
     ticker_symbol |-> ticker,
     content |-> content,
     chunk_type |-> type,
     metadata |-> [source_file |-> "f1.pdf", section |-> ""],
     vector |-> embedding(content)]

StoredRow(name, ticker, type) ==
    StoredRowWith(name, ticker, type, <<W(maxChunkSize \div 2 - 1), Dot>>)

RowKinds ==
    { StoredRow(BatzInc, ABCD, "business"),
      StoredRow(BatzInc, ABCD, "general"),
      StoredRow(<<"A", "c", "m", "e", " ", "L", "t", "d">>,
                <<"A", "C", "M", "E">>, "business"),
      \* the row of a filing that writes its ticker in lower case
      StoredRow(<<"A", "B", "C", "D", " ", "C", "o", "r", "p">>,
                extractCompanyInfo(LowerTickerText).ticker, "risk_factors"),
      \* another name under the ticker ABCD, with a financial figure
      StoredRowWith(BatzCorp, ABCD, "general",
                    <<Label("revenue", "title"), S(1), Dollar,
                      Amt(<<"5", "0", ",", "0", "0", "0">>), Dot>>),
      \* a row without a ticker
      StoredRow(ABInc, <<>>, "financial_statements") }

\* a ticker parameter that holds a quote
QuotedTicker == <<"q", Quote, " ", "O", "R", " ", Quote, "a", Quote, "=", Quote, "a">>

\* the :ticker parameter and the limit of the query string
CompanyArgs ==
    [ticker : {ABCD, <<"a", "b", "c", "d">>, <<"Z", "Z">>, QuotedTicker,
               <<"q", Quote, "x">>},
     limit : {Undefined, Str(<<"1">>)},
     company_name : {Undefined},
     include_context : {FALSE}]

\* the body of POST /api/company/financials
FinancialsArgs ==
    [ticker : {<<>>},
     limit : {Undefined},
     company_name : {Undefined, Str(<<>>), Str(Batz), Num(7)},
     include_context : BOOLEAN]

RECURSIVE Tables(_)
Tables(n) ==
    IF n = 0 THEN {<<>>}
    ELSE Tables(n - 1) \cup
         {Append(tb, r) : tb \in {x \in Tables(n - 1) : Len(x) = n - 1},
                          r \in RowKinds}

\* distances in hundredths: an exact match and a near row
Distances == {0, 40}

----------------------------------------------------------------------------
(* The data service: start-up and the handlers of its routes *)

NoResponse ==
    [status |-> 0, success |-> FALSE, envelope |-> FALSE, data |-> <<>>,
     results_count |-> 0, payload |-> <<>>]

NoSearch == [issued |-> FALSE, limit |-> Undefined, clause |-> <<>>]

NoBody == [query |-> Undefined, limit |-> Undefined, company_filter |-> <<>>,
           chunk_type_filter |-> ""]

NoArg == [ticker |-> <<>>, limit |-> Undefined, company_name |-> Undefined,
          include_context |-> FALSE]

NoExt == [embed |-> "none", storage |-> "none", dist |-> <<>>]

NoPrev == [repeat |-> FALSE, res |-> NoResponse, ext |-> NoExt]

NoHealth == [asked |-> FALSE, success |-> FALSE, database_connected |-> FALSE]

QueryIdle ==
    /\ qRows = <<>>
    /\ qTable = "null"
    /\ qPc = "off"
    /\ qReq = NoBody
    /\ qRes = NoResponse
    /\ qEmbedCalls = 0
    /\ qStorageCalls = 0
    /\ qSearch = NoSearch
    /\ qRaw = <<>>
    /\ qRoute = "none"
    /\ qArg = NoArg
    /\ qFault = ""
    /\ qHealth = NoHealth
    /\ qExt = NoExt
    /\ qPrev = NoPrev

\* an initialize() whose catch does not throw
InitializeCatch_Swallow(next) == next

\* the catch of initialize() throws: main rejects, or start() rejects and the
\* process exits; the service never listens
InitializeCatch(next) == "exited"

\* main: await api.initialize()
QueryMain ==
    /\ qPc = "main"
    /\ \E opened \in BOOLEAN :
          IF opened
          THEN qTable' = "open" /\ qPc' = "start"
          ELSE qTable' = qTable /\ qPc' = InitializeCatch("start")
    /\ UNCHANGED <<chunkVars, ingestVars, qRows, qReq, qRes, qEmbedCalls,
                   qStorageCalls, qSearch, qRaw, qRoute, qArg, qFault, qHealth,
                   qExt, qPrev>>

\* start(): await this.initialize(), then app.listen
QueryStart ==
    /\ qPc = "start"
    /\ \E opened \in BOOLEAN :
          IF opened
          THEN qTable' = "open" /\ qPc' = "idle"
          ELSE qTable' = qTable /\ qPc' = InitializeCatch("idle")
    /\ UNCHANGED <<chunkVars, ingestVars, qRows, qReq, qRes, qEmbedCalls,
                   qStorageCalls, qSearch, qRaw, qRoute, qArg, qFault, qHealth,
                   qExt, qPrev>>

Listening == qPc \notin {"off", "main", "start", "exited"}

\* const { query, limit = 5, .. } = req.body
limitOf(body) == IF body.limit.t = "undefined" THEN Num(5) ELSE body.limit

\* the query check of the handler fails
BadQuery(body) == JsNot(body.query) \/ body.query.t # "string"

\* the limit check of the handler fails
BadLimit(body) == JsLess(limitOf(body), 1) \/ JsGreater(limitOf(body), 100)

\* !company_name || typeof company_name !== 'string'
BadCompanyName(arg) == JsNot(arg.company_name) \/ arg.company_name.t # "string"

\* res.status(status).json({success, data, meta}) of the search routes
Respond(status, data) ==
    /\ qRes' = [status |-> status, success |-> (status = 200), envelope |-> TRUE,
                data |-> data, results_count |-> Len(data), payload |-> <<>>]
    /\ qPc' = "responded"

\* res.status(status).json({success, data}) of the other routes
RespondWith(status, payload) ==
    /\ qRes' = [status |-> status, success |-> (status = 200), envelope |-> TRUE,
                data |-> <<>>, results_count |-> 0, payload |-> payload]
    /\ qPc' = "responded"

\* res.json({success: true, data: results, meta}) of the financials route
RespondFinancials(results) ==
    /\ qRes' = [status |-> 200, success |-> TRUE, envelope |-> TRUE,
                data |-> <<>>,
                results_count |-> resultsCountOf(results.financial_chunks),
                payload |-> <<results>>]
    /\ qPc' = "responded"

\* the handler of POST /api/query up to its first await
HandleQuery(body) ==
    /\ qRoute' = "query"
    /\ qReq' = body
    /\ qArg' = NoArg
    /\ IF BadQuery(body) \/ BadLimit(body)
       THEN Respond(400, <<>>) /\ qEmbedCalls' = 0 /\ qFault' = ""
       ELSE IF qTable = "null"
            THEN /\ Respond(500, <<>>)
                 /\ qEmbedCalls' = 0
                 /\ qFault' = "Database not initialized"
            ELSE /\ qEmbedCalls' = 1
                 /\ qPc' = "embedding"
                 /\ qRes' = NoResponse
                 /\ qFault' = ""
    /\ qStorageCalls' = 0
    /\ qSearch' = NoSearch
    /\ qRaw' = <<>>
    /\ qExt' = NoExt

\* the handler of POST /api/company/financials up to its first await
HandleFinancials(arg) ==
    /\ qRoute' = "financials"
    /\ qReq' = NoBody
    /\ qArg' = arg
    /\ IF BadCompanyName(arg)
       THEN RespondWith(400, <<>>) /\ qEmbedCalls' = 0 /\ qFault' = ""
       ELSE IF qTable = "null"
            THEN /\ RespondWith(500, <<>>)
                 /\ qEmbedCalls' = 0
                 /\ qFault' = "Database not initialized"
            ELSE /\ qEmbedCalls' = 1
                 /\ qPc' = "embedding"
                 /\ qRes' = NoResponse
                 /\ qFault' = ""
    /\ qStorageCalls' = 0
    /\ qSearch' = NoSearch
    /\ qRaw' = <<>>
    /\ qExt' = NoExt

\* the handlers of GET /api/companies, /api/company/:ticker and /api/stats up
\* to the await of their storage query
HandleRead(route, arg) ==
    /\ qRoute' = route
    /\ qReq' = NoBody
    /\ qArg' = arg
    /\ IF qTable = "null"
       THEN /\ RespondWith(500, <<>>)
            /\ qStorageCalls' = 0
            /\ qFault' = "Database not initialized"
       ELSE /\ qStorageCalls' = 1
            /\ qPc' = "reading"
            /\ qRes' = NoResponse
            /\ qFault' = ""
    /\ qEmbedCalls' = 0
    /\ qSearch' = NoSearch
    /\ qRaw' = <<>>
    /\ qExt' = NoExt

\* a request arrives at POST /api/query
QueryReceive ==
    /\ qPc = "idle"
    /\ \E body \in RequestBodies : HandleQuery(body)
    /\ qPrev' = NoPrev
    /\ UNCHANGED <<chunkVars, ingestVars, qRows, qTable, qHealth>>

\* a request arrives at POST /api/company/financials
FinancialsReceive ==
    /\ qPc = "idle"
    /\ \E arg \in FinancialsArgs : HandleFinancials(arg)
    /\ qPrev' = NoPrev
    /\ UNCHANGED <<chunkVars, ingestVars, qRows, qTable, qHealth>>

\* a request arrives at GET /api/companies
CompaniesReceive ==
    /\ qPc = "idle"
    /\ HandleRead("companies", NoArg)
    /\ qPrev' = NoPrev
    /\ UNCHANGED <<chunkVars, ingestVars, qRows, qTable, qHealth>>

\* a request arrives at GET /api/company/:ticker
CompanyReceive ==
    /\ qPc = "idle"
    /\ \E arg \in CompanyArgs : HandleRead("company", arg)
    /\ qPrev' = NoPrev
    /\ UNCHANGED <<chunkVars, ingestVars, qRows, qTable, qHealth>>

\* a request arrives at GET /api/stats
StatsReceive ==
    /\ qPc = "idle"
    /\ HandleRead("stats", NoArg)
    /\ qPrev' = NoPrev
    /\ UNCHANGED <<chunkVars, ingestVars, qRows, qTable, qHealth>>

\* express.json() cannot parse the body of a POST request: it passes the
\* error on, no error handler is registered (setupErrorHandling is not
\* called), and the default handler of the framework answers
BodyRejected ==
    /\ qPc = "idle"
    /\ \E route \in {"query", "financials"} : qRoute' = route
    /\ qRes' = [status |-> 400, success |-> FALSE, envelope |-> FALSE,
                data |-> <<>>, results_count |-> 0, payload |-> <<>>]
    /\ qPc' = "responded"
    /\ qFault' = "body"
    /\ qPrev' = NoPrev
    /\ UNCHANGED <<chunkVars, ingestVars, qRows, qTable, qReq, qArg, qEmbedCalls,
                   qStorageCalls, qSearch, qRaw, qExt, qHealth>>

\* GET /health is answered at once, also while another request is waiting
Health ==
    /\ Listening
    /\ qHealth' = [asked |-> TRUE, success |-> TRUE,
                   database_connected |-> (qTable # "null")]
    /\ UNCHANGED <<chunkVars, ingestVars, qRows, qTable, qPc, qReq, qRes,
                   qEmbedCalls, qStorageCalls, qSearch, qRaw, qRoute, qArg,
                   qFault, qExt, qPrev>>

\* the arguments performVectorSearch is called with
searchArgs ==
    IF qRoute = "query"
    THEN [limit |-> limitOf(qReq), companyFilter |-> qReq.company_filter,
          chunkTypeFilter |-> qReq.chunk_type_filter]
    ELSE [limit |-> Num(20), companyFilter |-> qArg.company_name.s,
          chunkTypeFilter |-> ""]

\* generateEmbedding answers; on success the search is built and sent
QueryEmbedded ==
    /\ qPc = "embedding"
    /\ \E ok \in BOOLEAN :
          IF ok
          THEN /\ qSearch' = [issued |-> TRUE, limit |-> searchArgs.limit,
                              clause |-> joinAnd(searchFilters(
                                             searchArgs.companyFilter,
                                             searchArgs.chunkTypeFilter))]
               /\ qStorageCalls' = qStorageCalls + 1
               /\ qPc' = "searching"
               /\ qExt' = [qExt EXCEPT !.embed = "ok"]
               /\ UNCHANGED <<qRes, qFault>>
          ELSE /\ IF qRoute = "query" THEN Respond(500, <<>>)
                  ELSE RespondWith(500, <<>>)
               /\ qFault' = "Failed to generate embedding"
               /\ qExt' = [qExt EXCEPT !.embed = "failed"]
               /\ UNCHANGED <<qSearch, qStorageCalls>>
    /\ UNCHANGED <<chunkVars, ingestVars, qRows, qTable, qReq, qEmbedCalls, qRaw,
                   qRoute, qArg, qHealth, qPrev>>

\* the storage answers the search: an error, or (for a numeric limit) the
\* ranked rows, each with its distance to the query vector
QuerySearched ==
    /\ qPc = "searching"
    /\ \/ /\ IF qRoute = "query" THEN Respond(500, <<>>)
             ELSE RespondWith(500, <<>>)
          /\ qFault' = "storage"
          /\ qExt' = [qExt EXCEPT !.storage = "failed"]
          /\ UNCHANGED qRaw
       \/ /\ qSearch.limit.t = "number"
          /\ \E dist \in [DOMAIN qRows -> Distances] :
                /\ qRaw' = searchRows(qRows, dist, qSearch.limit.n, qSearch.clause)
                /\ qExt' = [qExt EXCEPT !.storage = "ok", !.dist = dist]
                /\ IF qRoute = "query"
                   THEN Respond(200, searchResults(qRaw'))
                   ELSE RespondFinancials(
                            companyFinancials(qArg.company_name.s,
                                              qArg.include_context,
                                              searchResults(qRaw')))
          /\ UNCHANGED qFault
    /\ UNCHANGED <<chunkVars, ingestVars, qRows, qTable, qReq, qEmbedCalls,
                   qStorageCalls, qSearch, qRoute, qArg, qHealth, qPrev>>

\* Number(limit) of the company route
companyLimit == ToNumber(companyLimitOf(qArg.limit)).n

\* what the handler of a read route answers once its storage query is back
readAnswer ==
    CASE qRoute = "companies" ->
            [status |-> 200,
             payload |-> <<[companies |-> listCompanies(qRows),
                            total_count |-> Len(listCompanies(qRows))]>>]
      [] qRoute = "stats" ->
            [status |-> 200, payload |-> <<getDatabaseStats(qRows)>>]
      [] qRoute = "company" ->
            LET companyData == getCompanyByTicker(qRows, qArg.ticker, companyLimit) IN
            IF Len(companyData) = 0
            THEN [status |-> 404, payload |-> <<>>]
            ELSE [status |-> 200,
                  payload |-> <<[ticker |-> qArg.ticker,
                                 chunks |-> companyData,
                                 total_chunks |-> Len(companyData)]>>]

\* the storage rejects the query of the request
StorageRejects ==
    /\ qRoute = "company"
    /\ SyntaxError \in Range(tickerClause(toUpperCase(qArg.ticker)))

\* the rows the table holds after a request that drops one
TableAfterRequest_Drop(rows) == IF rows = <<>> THEN rows ELSE Tail(rows)

\* the rows the table holds after a request: the query methods only call
\* search, query, where, limit, select and toArray
TableAfterRequest(rows) == rows

\* the storage answers the query of a read route
ReadReturned ==
    /\ qPc = "reading"
    /\ \E ok \in BOOLEAN :
          IF ok /\ ~StorageRejects
          THEN /\ RespondWith(readAnswer.status, readAnswer.payload)
               /\ qExt' = [qExt EXCEPT !.storage = "ok"]
               /\ UNCHANGED qFault
          ELSE /\ RespondWith(500, <<>>)
               /\ qFault' = "storage"
               /\ qExt' = [qExt EXCEPT !.storage = "failed"]
    /\ UNCHANGED <<chunkVars, ingestVars, qRows, qTable, qReq, qEmbedCalls,
                   qStorageCalls, qSearch, qRaw, qRoute, qArg, qHealth, qPrev>>

\* the caller sends the request it has just been answered once more
QueryRepeat ==
    /\ qPc = "responded"
    /\ ~qPrev.repeat
    /\ qFault # "body"
    /\ qPrev' = [repeat |-> TRUE, res |-> qRes, ext |-> qExt]
    /\ CASE qRoute = "query" -> HandleQuery(qReq)
         [] qRoute = "financials" -> HandleFinancials(qArg)
         [] OTHER -> HandleRead(qRoute, qArg)
    /\ UNCHANGED <<chunkVars, ingestVars, qRows, qTable, qHealth>>

\* the response has been sent; the service waits for the next request
QueryDone ==
    /\ qPc = "responded"
    /\ qPc' = "idle"
    /\ qRows' = TableAfterRequest(qRows)
    /\ qReq' = NoBody
    /\ qRes' = NoResponse
    /\ qEmbedCalls' = 0
    /\ qStorageCalls' = 0
    /\ qSearch' = NoSearch
    /\ qRaw' = <<>>
    /\ qRoute' = "none"
    /\ qArg' = NoArg
    /\ qFault' = ""
    /\ qExt' = NoExt
    /\ qPrev' = NoPrev
    /\ UNCHANGED <<chunkVars, ingestVars, qTable, qHealth>>

QueryInit ==
    /\ ChunkIdle
    /\ IngestIdle
    /\ qRows \in Tables(MaxRows)
    /\ qTable = "null"
    /\ qPc = "main"
    /\ qReq = NoBody
    /\ qRes = NoResponse
    /\ qEmbedCalls = 0
    /\ qStorageCalls = 0
    /\ qSearch = NoSearch
    /\ qRaw = <<>>
    /\ qRoute = "none"
    /\ qArg = NoArg
    /\ qFault = ""
    /\ qHealth = NoHealth
    /\ qExt = NoExt
    /\ qPrev = NoPrev

QueryNext ==
    \/ QueryMain
    \/ QueryStart
    \/ QueryReceive
    \/ FinancialsReceive
    \/ CompaniesReceive
    \/ CompanyReceive
    \/ StatsReceive
    \/ BodyRejected
    \/ Health
    \/ QueryEmbedded
    \/ QuerySearched
    \/ ReadReturned
    \/ QueryRepeat
    \/ QueryDone

SpecQuery == QueryInit /\ [][QueryNext]_vars

----------------------------------------------------------------------------
(* Inputs of the financial summaries *)

MaxChunks == 2

\* chunk contents: an amount after its label, a label followed by a comma,
\* a content that ends in a label, one that begins with an amount, no label
ChunkContents ==
    { <<Label("revenue", "title"), S(1), Dollar,
        Amt(<<"5", "0", ",", "0", "0", "0">>), Dot>>,
      <<Label("revenue", "title"), Amt(<<",">>), S(1), W(3), Dot>>,
      <<W(maxChunkSize), S(1), Label("total assets", "upper")>>,
      <<Amt(<<"9", "0", "0">>), S(1), W(5), Dot>>,
      <<Label("net income", "title"), S(1), Amt(<<"7">>), Dot>>,
      <<Label("long-term debt", "title"), S(1), Amt(<<"3">>), Dot>>,
      <<W(20), Dot>> }

RECURSIVE ChunkLists(_)
ChunkLists(n) ==
    IF n = 0 THEN {<<>>}
    ELSE ChunkLists(n - 1) \cup
         {Append(l, c) : l \in {x \in ChunkLists(n - 1) : Len(x) = n - 1},
                         c \in ChunkContents}

MetricsInit ==
    /\ cText = <<>>
    /\ cInfo = [name |-> <<>>, ticker |-> <<>>]
    /\ cChunks = <<>>
    /\ cParts = <<>>
    /\ cPc = "start"
    /\ ExtractIdle
    /\ mChunks \in ChunkLists(MaxChunks)
    /\ mMetrics = <<>>
    /\ mSummary = <<>>
    /\ mPc = "start"
    /\ IngestIdle
    /\ QueryIdle

MetricsCall ==
    /\ mPc = "start"
    /\ mMetrics' = extractFinancialMetrics(mChunks)
    /\ mPc' = "metrics"
    /\ UNCHANGED <<cText, cInfo, cChunks, cParts, cPc, extractVars, mChunks,
                   mSummary, ingestVars, queryVars>>

SummarizeCall ==
    /\ mPc = "metrics"
    /\ mSummary' = summarizeFinancials(mChunks)
    /\ mPc' = "done"
    /\ UNCHANGED <<cText, cInfo, cChunks, cParts, cPc, extractVars, mChunks,
                   mMetrics, ingestVars, queryVars>>

MetricsNext == MetricsCall \/ SummarizeCall

SpecMetrics == MetricsInit /\ [][MetricsNext]_vars

----------------------------------------------------------------------------
(* Inputs of chunkDocument *)

MaxSents == 3

\* sentence bodies: longer than the cap, just under half the cap, a blank
SentBodies ==
    { <<W(maxChunkSize + 200)>>, <<W(maxChunkSize \div 2 - 1)>>, <<S(1)>> }

RECURSIVE Bodies(_)
Bodies(n) ==
    IF n = 0 THEN {<<>>}
    ELSE Bodies(n - 1) \cup
         {b \o s \o <<Dot>> : b \in Bodies(n - 1), s \in SentBodies}

SecHeads == {Item1Business, PartI}

\* one leading section, then at most one section introduced by a marker
Texts ==
    Bodies(MaxSents) \cup
    {a \o h \o b : a \in Bodies(MaxSents), h \in SecHeads, b \in Bodies(MaxSents)}

\* sections with the markers of the type labelling: a risk-factors section of
\* 1001 characters that ends in a terminator, one of three sentences of half
\* the cap, a business section and a risk-factors section that mention the
\* financial statements, a leading section that mentions them
LabelTexts ==
    { Item2RiskFactors \o <<W(480), Dot, W(499), Dot>>,
      Item2RiskFactors \o <<W(499), Dot, W(499), Dot, W(499), Dot>>,
      Item1Business \o <<W(200), S(1)>> \o FinancialStatements \o <<Dot>>,
      <<W(100), S(1)>> \o FinancialStatements \o <<Dot, S(1)>>
          \o Item2RiskFactors \o <<S(1)>> \o FinancialStatements
          \o <<W(600), Dot, W(600), Dot>>,
      <<W(10), Dot, S(1)>> \o PartI \o <<W(20), Dot, S(1)>>
          \o Item1Business \o <<W(600), Dot, W(600)>> }

ChunkTexts == Texts \cup LabelTexts

CompanyInfos == {[name |-> <<>>, ticker |-> <<>>],
                 [name |-> BatzInc, ticker |-> ABCD]}

ChunkInit ==
    /\ cText \in ChunkTexts
    /\ cInfo \in CompanyInfos
    /\ cChunks = <<>>
    /\ cParts = <<>>
    /\ cPc = "start"
    /\ ExtractIdle
    /\ MetricsIdle
    /\ IngestIdle
    /\ QueryIdle

ChunkCall ==
    /\ cPc = "start"
    /\ cChunks' = chunkDocument(cText, cInfo, "a.pdf")
    /\ cParts' = chunkParts(cText)
    /\ cPc' = "done"
    /\ UNCHANGED <<cText, cInfo, extractVars, metricsVars, ingestVars, queryVars>>

\* the same call repeated on the same arguments
ChunkAgain ==
    /\ cPc = "done"
    /\ cChunks' = chunkDocument(cText, cInfo, "a.pdf")
    /\ cParts' = chunkParts(cText)
    /\ cPc' = "again"
    /\ UNCHANGED <<cText, cInfo, extractVars, metricsVars, ingestVars, queryVars>>

ChunkNext == ChunkCall \/ ChunkAgain

SpecChunk == ChunkInit /\ [][ChunkNext]_vars

----------------------------------------------------------------------------
(* Inputs of extractCompanyInfo *)

MaxLines == 3

abcd == <<"a", "b", "c", "d">>

\* the lines a text is made of
Lines ==
    { <<Name(BatzInc)>>,
      <<TickerLabel, S(1), Up(ABCD)>>,
      <<TickerLabel, S(1), Lo(abcd)>>,
      <<TickerLabel, S(1), W(3)>>,
      <<Label("revenue", "title"), S(1), Dollar, Amt(<<"5", "0", ",", "0", "0", "0">>)>>,
      <<Label("revenue", "lower"), Amt(<<",">>), S(1), W(3)>>,
      <<Label("revenue", "title"), S(1), W(4)>>,
      <<Label("net income", "title"), S(1), Amt(<<"7">>)>>,
      <<Label("industry:", "title"), S(1), W(8), S(1)>>,
      <<Label("industry:", "title"), S(1)>>,
      <<Label("employees:", "title"), S(1), Amt(<<"1", ",", "2", "0", "0">>)>>,
      <<Label("headquarters:", "title")>> }

RECURSIVE LineTexts(_)
LineTexts(n) ==
    IF n = 0 THEN {<<>>}
    ELSE LineTexts(n - 1) \cup
         {l \o <<NL>> \o t : l \in Lines,
                             t \in {x \in LineTexts(n - 1) : x # <<>>}}
         \cup Lines

ExtractInit ==
    /\ cText = <<>>
    /\ cInfo = [name |-> <<>>, ticker |-> <<>>]
    /\ cChunks = <<>>
    /\ cParts = <<>>
    /\ cPc = "start"
    /\ xText \in LineTexts(MaxLines)
    /\ xInfo = [name |-> <<>>, ticker |-> <<>>]
    /\ xPc = "start"
    /\ MetricsIdle
    /\ IngestIdle
    /\ QueryIdle

ExtractCall ==
    /\ xPc = "start"
    /\ xInfo' = extractCompanyInfo(xText)
    /\ xPc' = "done"
    /\ UNCHANGED <<cText, cInfo, cChunks, cParts, cPc, xText, metricsVars,
                   ingestVars, queryVars>>

ExtractNext == ExtractCall

SpecExtract == ExtractInit /\ [][ExtractNext]_vars

----------------------------------------------------------------------------
(* The ingestion runs *)

MaxDocs == 3

Header ==
    <<Name(BatzInc), S(1), TickerLabel, S(1), Up(ABCD), S(1)>>

\* a filing that yields two docChunks, a ticker-less one that yields one
TwoChunkText ==
    Header \o <<W(maxChunkSize + 200), Dot, W(maxChunkSize + 200), Dot>>
OneChunkText == <<W(maxChunkSize \div 2 - 1), Dot>>

FileKinds ==
    { [ext |-> ".pdf", text |-> TwoChunkText],
      [ext |-> ".PDF", text |-> OneChunkText],
      [ext |-> ".txt", text |-> OneChunkText] }

RECURSIVE Listings(_)
Listings(n) ==
    IF n = 0 THEN {<<>>}
    ELSE Listings(n - 1) \cup
         {Append(l, [name |-> "f" \o ToString(Len(l) + 1), ext |-> f.ext,
                     text |-> f.text]) :
             l \in {x \in Listings(n - 1) : Len(x) = n - 1}, f \in FileKinds}

Init ==
    /\ ChunkIdle
    /\ QueryIdle
    /\ store = [exists |-> FALSE, rows |-> <<>>]
    /\ table = "null"
    /\ pc = "main"
    /\ files \in Listings(MaxDocs)
    /\ fileIdx = 0
    /\ docChunks = <<>>
    /\ chunkPos = 0
    /\ inFlight = 0
    /\ addPending = FALSE
    /\ NoLogs
    /\ rows0 = <<>>
    /\ runs = 1

Next ==
    \/ CallInitialize
    \/ SkipInitialize
    \/ OpenTable
    \/ CreateTable
    \/ DeleteSample
    \/ MainIngest
    \/ DirStart
    \/ ReadParse
    \/ EmbedIssue
    \/ EmbedReturn
    \/ AddIssue
    \/ SkipAdd
    \/ AddReturn
    \/ Restart

Spec == Init /\ [][Next]_vars

----------------------------------------------------------------------------
(* Claims about chunkDocument *)

Returned == cPc # "start"

Ids(chunks) == [c \in 1..Len(chunks) |-> chunks[c].id]

ChunkTypes == {"business", "risk_factors", "financial_statements", "general"}

\* C8: no returned chunk is longer than the cap of 1000 characters, except a
\* chunk made of exactly one sentence that alone exceeds the cap; a sentence
\* longer than the cap is never packed together with another sentence.
C8_SoftCap ==
    Returned =>
        \A c \in 1..Len(cChunks) :
            /\ \/ Length(cChunks[c].content) <= maxChunkSize
               \/ /\ Len(cParts[c].sents) = 1
                  /\ Length(cParts[c].sents[1]) > maxChunkSize
            /\ \A j \in 1..Len(cParts[c].sents) :
                   Length(cParts[c].sents[j]) > maxChunkSize
                       => Len(cParts[c].sents) = 1

\* C9: every returned chunk has content that is non-empty after trimming and
\* one of the four chunk types.
C9_NonEmptyTyped ==
    Returned =>
        \A c \in 1..Len(cChunks) :
            /\ Length(trim(cChunks[c].content)) > 0
            /\ cChunks[c].chunk_type \in ChunkTypes

\* the ids of one returned sequence: their form, their chunk indices counting
\* 0, 1, 2, ... within a section, and their distinctness
C10_IdsInv ==
    Returned =>
        /\ \A c \in 1..Len(cChunks) :
              /\ cChunks[c].id =
                    (IF cInfo.ticker = <<>> THEN "unknown"
                     ELSE Join(cInfo.ticker))
                    \o "_" \o ToString(cParts[c].sec)
                    \o "_" \o ToString(cParts[c].idx)
              /\ cParts[c].idx =
                    Cardinality({b \in 1..(c - 1) : cParts[b].sec = cParts[c].sec})
        /\ \A a, b \in 1..Len(cChunks) :
              a # b => cChunks[a].id # cChunks[b].id

\* C10: every id is ticker-or-"unknown", section index and chunk index joined
\* by "_"; the ids of one call are pairwise distinct; the chunk indices of a
\* section count 0, 1, 2, ... in emission order; a second call on the same
\* arguments returns the same id sequence.
C10_Ids ==
    /\ []C10_IdsInv
    /\ [][cPc = "done" => Ids(cChunks') = Ids(cChunks)]_vars

\* two retained sections with two chunks each, ticker empty, called twice
C10_Witness ==
    /\ cPc = "again"
    /\ cInfo.ticker = <<>>
    /\ \E a, b \in 1..Len(cChunks) :
          /\ cParts[a].sec # cParts[b].sec
          /\ cParts[a].idx >= 1
          /\ cParts[b].idx >= 1

----------------------------------------------------------------------------
(* Claims about the ingestion service *)

\* chunks with the vector of each set to the embedding of its own content
Embedded(cs) ==
    [c \in 1..Len(cs) |-> [cs[c] EXCEPT !.vector = embedding(cs[c].content)]]

\* what chunkDocument returns for the j-th PDF of the listing
ChunksOfDoc(j) ==
    LET f == pdfFiles(files)[j] IN
    chunkDocument(f.text, extractCompanyInfo(f.text), basename(f))

NumDocs == Len(pdfFiles(files))

\* the number of times the directory loop reported document j as failed
Reports(j) ==
    Cardinality({e \in DOMAIN errLog :
                    errLog[e] = Err("Failed to process", j)})

InLoop == pc \in {"read", "embed", "await", "add", "done"}

\* the documents the directory loop is through with
Through == IF pc = "done" THEN NumDocs ELSE fileIdx - 1

\* the rows that documents 1..j leave in the table, given which succeeded
RECURSIVE RowsOfDocs(_)
RowsOfDocs(j) ==
    IF j = 0 THEN <<>>
    ELSE RowsOfDocs(j - 1) \o
         (IF j \in Range(okLog) /\ table = "open"
          THEN Embedded(ChunksOfDoc(j)) ELSE <<>>)

\* the rows added to the table since this run began to ingest
RowsOfRun == SubSeq(store.rows, Len(rows0) + 1, Len(store.rows))

\* C1: in directory ingestion a failing document is reported once, every
\* other document is still processed and its chunks are persisted as if no
\* document had failed, and ingestPDFDirectory does not raise.
C1_Isolation ==
    /\ (\E j \in 1..NumDocs : Reports(j) > 0) => pc # "raised"
    /\ InLoop =>
         /\ \A j \in 1..NumDocs :
               /\ Reports(j) <= 1
               /\ j <= Through <=> ((j \in Range(okLog)) # (Reports(j) = 1))
               /\ j > Through => j \notin Range(okLog) /\ Reports(j) = 0
         /\ store.rows = rows0 \o RowsOfDocs(Through)
         /\ Len(okLog) + Cardinality({j \in 1..NumDocs : Reports(j) = 1}) = Through

\* three documents, the embedding of the second fails: the chunks of the
\* first and the third are persisted and one failure is reported
C1_Witness ==
    /\ pc = "done"
    /\ NumDocs = 3
    /\ table = "open"
    /\ \E c \in 1..2 : embedFails = <<(<<2, c>>)>>
    /\ okLog = <<1, 3>>
    /\ Reports(2) = 1
    /\ Cardinality({e \in DOMAIN errLog : errLog[e].msg = "Failed to process"}) = 1
    /\ RowsOfRun = Embedded(ChunksOfDoc(1)) \o Embedded(ChunksOfDoc(3))
    /\ Len(ChunksOfDoc(1)) > 0
    /\ Len(ChunksOfDoc(3)) > 0

\* C2: ingestPDF issues at most one insert for a document, and only after
\* every chunk of it has been embedded; if the embedding of a chunk fails
\* the error reaches the caller, no later chunk of the document is embedded
\* and no chunk of the document is persisted.
C2_OneInsertAfterEmbedding ==
    /\ \A j \in 1..NumDocs :
          Cardinality({e \in DOMAIN insertLog : insertLog[e].doc = j}) <= 1
    /\ \A e \in DOMAIN insertLog :
          LET r == insertLog[e] IN
          /\ r.rows = Embedded(ChunksOfDoc(r.doc))
          /\ \A c \in 1..Len(ChunksOfDoc(r.doc)) : <<r.doc, c>> \in Range(embedLog)
    /\ \A f \in Range(embedFails) :
          /\ Reports(f[1]) = 1
          /\ f[1] \notin Range(okLog)
          /\ \A g \in Range(embedLog) : g[1] = f[1] => g[2] <= f[2]
          /\ \A e \in DOMAIN insertLog : insertLog[e].doc # f[1]
          /\ InLoop =>
               \A r \in Range(RowsOfRun) :
                   r.metadata.source_file # basename(pdfFiles(files)[f[1]])

\* the embedding of the second chunk of a document failed after the first
\* chunk was embedded, and the directory loop has gone on
C2_Witness ==
    /\ \E j \in 1..NumDocs :
          /\ <<j, 2>> \in Range(embedFails)
          /\ <<j, 1>> \in Range(embedLog)
          /\ Through >= j
    /\ table = "open"
    /\ pc = "done"
    /\ Len(insertLog) > 0

Pending == inFlight + (IF addPending THEN 1 ELSE 0)

\* C3: at most one embedding call is in flight; the calls are issued in
\* chunk order within a document and document after document, each after
\* the calls and the insert of the documents before it have ended; the rows
\* of an insert are in the order chunkDocument produced them and the
\* documents are persisted in listing order.
C3_Sequential ==
    /\ inFlight <= 1
    /\ Pending <= 1
    /\ \A e \in DOMAIN embedLog :
          /\ e = 1 => embedLog[e][2] = 1
          /\ e > 1 =>
               \/ /\ embedLog[e][1] = embedLog[e - 1][1]
                  /\ embedLog[e][2] = embedLog[e - 1][2] + 1
               \/ /\ embedLog[e][1] > embedLog[e - 1][1]
                  /\ embedLog[e][2] = 1
          /\ \A j \in 1..(embedLog[e][1] - 1) :
                j \in Range(okLog) \/ Reports(j) = 1
    /\ \A e \in DOMAIN insertLog :
          /\ Ids(insertLog[e].rows) = Ids(ChunksOfDoc(insertLog[e].doc))
          /\ e > 1 => insertLog[e].doc > insertLog[e - 1].doc
    /\ InLoop /\ table = "open" =>
          Ids(RowsOfRun) = Ids(RowsOfDocs(Through))

\* two documents with three chunks between them have been embedded and
\* inserted one after the other
C3_Witness ==
    /\ pc = "done"
    /\ Len(insertLog) >= 2
    /\ Len(embedLog) >= 3
    /\ Len(okLog) >= 2
    /\ Len(RowsOfRun) >= 3

InitializeReturned == pc = "initialized"

\* C4: whenever initialize() returns, the table holds no row with id
\* 'sample_chunk_id', also in a run that follows a run whose create or
\* sample-delete step failed.
C4_CreatedEmpty ==
    InitializeReturned =>
        \A r \in Range(store.rows) : r.id # "sample_chunk_id"

----------------------------------------------------------------------------
(* Claims about POST /api/query *)

Responded == qPc = "responded" /\ qRoute = "query" /\ qFault # "body"

\* the limit of the request is a number outside 1..100
LimitOutOfRange ==
    /\ qReq.limit.t = "number"
    /\ qReq.limit.n < 1 \/ qReq.limit.n > 100

\* C5: a request whose query is missing, empty or not a string, or whose
\* limit is below 1 or above 100, gets a 4xx answer with success = false and
\* neither the embedding service nor the storage is contacted; an omitted
\* limit is 5; every search sent for an accepted request has a limit in
\* 1..100.
C5_Validation ==
    /\ Responded /\ (JsNot(qReq.query) \/ qReq.query.t # "string" \/ LimitOutOfRange)
          => /\ qRes.status = 400
             /\ ~qRes.success
             /\ qEmbedCalls = 0
             /\ qStorageCalls = 0
    /\ qSearch.issued /\ qReq.limit.t = "undefined" => qSearch.limit = Num(5)
    /\ qSearch.issued =>
          /\ ~ToNumber(qSearch.limit).nan
          /\ ToNumber(qSearch.limit).n >= 1
          /\ ToNumber(qSearch.limit).n <= 100

\* C6: the similarity score of every returned result is 1 minus the distance
\* of its raw result, also for a distance of 0.
C6_Similarity ==
    Responded /\ qRes.status = 200 =>
        \A p \in DOMAIN qRes.data :
            qRes.data[p].similarity_score =
                [null |-> FALSE, n |-> One - qRaw[p].distance]

\* C7: every chunk a search returns satisfies all the filters of the
\* request: with companyFilter its company name contains the filter or its
\* ticker is the upper-cased filter, and with chunkTypeFilter its chunk type
\* is the filter.
C7_FilterConjunction ==
    Responded /\ qRes.status = 200 =>
        \A p \in DOMAIN qRes.data :
            /\ qReq.company_filter # <<>> =>
                  \/ Contains(qRes.data[p].company_name, qReq.company_filter)
                  \/ qRes.data[p].ticker_symbol = toUpperCase(qReq.company_filter)
            /\ qReq.chunk_type_filter # "" =>
                  qRes.data[p].chunk_type = qReq.chunk_type_filter

----------------------------------------------------------------------------
(* Claims about extractCompanyInfo *)

Extracted == xPc = "done"

HasDigit(chars) == \E p \in DOMAIN chars : IsDigit(chars[p])

\* C11: every financial metric that extractCompanyInfo reports is a
\* non-negative integer, 1000 times the integer written after the first
\* occurrence of the label of the metric, commas stripped.
C11_ScaledIntegers ==
    Extracted /\ xInfo.financial_data.present =>
        \A key \in DOMAIN xInfo.financial_data.of :
            LET written == amountOf(xText, labelOfKey(FinancialFields, key)) IN
            /\ ~xInfo.financial_data.of[key].nan
            /\ xInfo.financial_data.of[key].n >= 0
            /\ HasDigit(written)
            /\ xInfo.financial_data.of[key].n
                  = 1000 * DigitsVal(stripCommas(written))

\* the text has the label written in it, matched or not
HasLabel(text, word) ==
    \E j \in 1..Len(text) : text[j].k = "lab" /\ text[j].v = word

\* the metrics whose label is followed by an amount somewhere in the text
MatchedKeys(text) ==
    {FinancialFields[f].key : f \in
        {g \in DOMAIN FinancialFields :
            \E j \in 1..Len(text) :
                amountAt(text, j, FinancialFields[g].label) # 0}}

\* C12: every field whose label pattern does not occur in the text is
\* absent or empty in the result: name and ticker are empty, industry,
\* employees and headquarters are absent, an unmatched metric is absent, and
\* financialData is present exactly when one of the nine metrics matched.
C12_AbsentFields ==
    Extracted =>
        /\ (\A j \in 1..Len(xText) : xText[j].k # "name") => xInfo.name = <<>>
        /\ (\A j \in 1..Len(xText) : ~tickerMatchAt(xText, j)) => xInfo.ticker = <<>>
        /\ ~HasLabel(xText, "industry:") => ~xInfo.industry.present
        /\ (\A j \in 1..Len(xText) : ~lineMatchAt(xText, j, "industry:"))
              => ~xInfo.industry.present
        /\ ~HasLabel(xText, "headquarters:") => ~xInfo.headquarters.present
        /\ (\A j \in 1..Len(xText) : ~lineMatchAt(xText, j, "headquarters:"))
              => ~xInfo.headquarters.present
        /\ ~HasLabel(xText, "employees:") => ~xInfo.employees.present
        /\ DOMAIN xInfo.financial_data.of = MatchedKeys(xText)
        /\ xInfo.financial_data.present <=> MatchedKeys(xText) # {}

\* a text with a ticker and one metric and nothing else: the other fields
\* are absent
C12_Witness ==
    /\ Extracted
    /\ xInfo.ticker = ABCD
    /\ xInfo.name = <<>>
    /\ DOMAIN xInfo.financial_data.of = {"net_income"}
    /\ ~xInfo.industry.present
    /\ ~xInfo.employees.present
    /\ ~xInfo.headquarters.present
    /\ HasLabel(xText, "headquarters:")

IsUpperChar(ch) == \E u \in DOMAIN UpperChars : UpperChars[u] = ch

\* C20: the ticker extractCompanyInfo returns is empty or 1 to 5 upper-case
\* letters; a symbol written in lower case is not returned as it is written.
C20_UpperTicker ==
    Extracted =>
        \/ xInfo.ticker = <<>>
        \/ /\ Len(xInfo.ticker) \in 1..5
           /\ \A p \in DOMAIN xInfo.ticker : IsUpperChar(xInfo.ticker[p])

----------------------------------------------------------------------------
(* Claims about the financial summaries *)

\* the amounts written after the label, in any case, within one chunk
WrittenAmounts(contents, label) ==
    UNION {{contents[c][amountAt(contents[c], j, label)].c :
               j \in {i \in 1..Len(contents[c]) :
                         amountAt(contents[c], i, label) # 0}} :
           c \in DOMAIN contents}

\* C13: every metric of a financial summary is '$' followed by the digits
\* and commas as they are written after its label in a chunk, not rescaled,
\* and a metric whose label is not followed by an amount in any of the
\* chunks is omitted, never an empty value.
C13_AsWritten ==
    /\ mPc \in {"metrics", "done"} =>
          \A key \in DOMAIN mMetrics :
              \E a \in WrittenAmounts(mChunks, labelOfKey(MetricPatterns, key)) :
                  /\ HasDigit(a)
                  /\ mMetrics[key] = <<"$">> \o a
    /\ mPc = "done" =>
          \A e \in DOMAIN mSummary :
              \E f \in DOMAIN SummaryPatterns :
                  /\ SummaryPatterns[f].key = mSummary[e].title
                  /\ \E a \in WrittenAmounts(mChunks, SummaryPatterns[f].label) :
                        /\ HasDigit(a)
                        /\ mSummary[e].value = <<"$">> \o a

----------------------------------------------------------------------------
(* Claims about the routes of the data service *)

Answered == qPc = "responded"

\* C14: every request to the query API is answered with a structured
\* envelope that carries a boolean success field, whatever the state of the
\* service, the outcome of the external calls and the request body.
C14_Envelope ==
    /\ Answered => qRes.envelope /\ qRes.success \in BOOLEAN
    /\ qHealth.asked => qHealth.success \in BOOLEAN

\* C15: the service listens only after the table has been opened: every
\* request that is served observes a table handle that is not null, health
\* reports database_connected = true, and no handler fails with 'Database
\* not initialized'.
C15_ListenAfterOpen ==
    /\ Listening => qTable = "open"
    /\ qHealth.asked => qHealth.database_connected
    /\ qFault # "Database not initialized"
    /\ qPc = "exited" => ~qHealth.asked /\ qRoute = "none"

\* a request has been served and health has been asked while it waited
C15_Witness ==
    /\ Answered
    /\ qRes.status = 200
    /\ qHealth.asked
    /\ qHealth.database_connected
    /\ qStorageCalls = 1

\* the positions of the rows whose ticker is the upper-cased parameter
TickerRows == {p \in DOMAIN qRows :
                  qRows[p].ticker_symbol = toUpperCase(qArg.ticker)}

\* C16: GET companyByTicker/{t} answers 404 with success = false exactly
\* when no stored row has the ticker uppercase(t); otherwise it answers
\* success with rows of that ticker only, at most limit of them, limit being
\* 10 when it is not given.
C16_TickerLookup ==
    Answered /\ qRoute = "company" /\ qExt.storage = "ok" =>
        /\ qRes.status = 404 <=> TickerRows = {}
        /\ qRes.status = 404 => ~qRes.success
        /\ TickerRows # {} =>
              /\ qRes.status = 200
              /\ qRes.success
        /\ qRes.status = 200 =>
              /\ \A c \in DOMAIN qRes.payload[1].chunks :
                    qRes.payload[1].chunks[c].ticker_symbol
                        = toUpperCase(qArg.ticker)
              /\ Len(qRes.payload[1].chunks)
                    <= (IF qArg.limit.t = "undefined" THEN 10
                        ELSE DigitsVal(qArg.limit.s))

\* the company key of a row or of an entry of the list
KeyOf(r) == IF r.ticker_symbol # <<>> THEN r.ticker_symbol ELSE r.company_name

\* C17: GET companies returns exactly one entry per company key of the
\* stored rows (the ticker when it is not empty, else the name), the entry is
\* the name and ticker of the first stored row with that key, no two
\* entries are equal, and total_count is the length of the list.
C17_Deduplicated ==
    Answered /\ qRoute = "companies" /\ qRes.status = 200 =>
        LET list == qRes.payload[1].companies IN
        /\ {KeyOf(list[e]) : e \in DOMAIN list}
              = {KeyOf(qRows[p]) : p \in DOMAIN qRows}
        /\ \A e, f \in DOMAIN list :
              e # f => KeyOf(list[e]) # KeyOf(list[f]) /\ list[e] # list[f]
        /\ \A e \in DOMAIN list :
              LET first == Min({p \in DOMAIN qRows :
                                   KeyOf(qRows[p]) = KeyOf(list[e])})
              IN list[e] = [company_name |-> qRows[first].company_name,
                            ticker_symbol |-> qRows[first].ticker_symbol]
        /\ qRes.payload[1].total_count = Len(list)

\* two stored rows with one key and different names give one entry
C17_Witness ==
    /\ Answered
    /\ qRoute = "companies"
    /\ qRes.status = 200
    /\ Len(qRows) = 2
    /\ KeyOf(qRows[1]) = KeyOf(qRows[2])
    /\ qRows[1].company_name # qRows[2].company_name
    /\ Len(qRes.payload[1].companies) = 1

\* the sum of the values of a map of counts
RECURSIVE SumOf(_, _)
SumOf(counts, keys) ==
    IF keys = {} THEN 0
    ELSE LET key == CHOOSE x \in keys : TRUE
         IN counts[key] + SumOf(counts, keys \ {key})

\* C18: GET stats reports total_chunks equal to the number of stored rows,
\* counts per chunk type and counts per company that each sum to
\* total_chunks, and unique_companies equal to the number of keys of the
\* per-company map and to the number of entries GET companies returns.
C18_StatsTotals ==
    Answered /\ qRoute = "stats" /\ qRes.status = 200 =>
        LET stats == qRes.payload[1] IN
        /\ stats.total_chunks = Len(qRows)
        /\ SumOf(stats.chunk_types, DOMAIN stats.chunk_types) = stats.total_chunks
        /\ SumOf(stats.companies, DOMAIN stats.companies) = stats.total_chunks
        /\ stats.unique_companies = Cardinality(DOMAIN stats.companies)
        /\ stats.unique_companies = Len(listCompanies(qRows))

\* two stored rows of one company and one chunk type have been counted
C18_Witness ==
    /\ Answered
    /\ qRoute = "stats"
    /\ qRes.status = 200
    /\ Len(qRows) = 2
    /\ qRes.payload[1].unique_companies = 1
    /\ Cardinality(DOMAIN qRes.payload[1].chunk_types) = 1

\* the answer to a repeated request whose external calls ended as before is
\* the answer to the first
SameAnswer == Answered /\ qPrev.repeat /\ qPrev.ext = qExt => qRes = qPrev.res

----------------------------------------------------------------------------
(* Claims about the storage of the ingestion service *)

\* C21: while the table handle of the ingestion service is null, a document
\* with chunks is never reported as successfully processed: its ingestPDF
\* fails and the failure is reported.
C21_StorageUnavailable ==
    InLoop /\ table = "null" =>
        \A j \in 1..Through :
            Len(ChunksOfDoc(j)) > 0 => j \notin Range(okLog) /\ Reports(j) = 1

\* the rows of a table that come from the j-th PDF of the listing
RowsFrom(rows, j) ==
    SelectSeq(rows, LAMBDA r :
        r.metadata.source_file = basename(pdfFiles(files)[j]))

\* rows is the beginning of more
IsPrefix(rows, more) ==
    Len(rows) <= Len(more) /\ SubSeq(more, 1, Len(rows)) = rows

\* C26: ingestion only appends: no step changes or removes a row that an
\* ingestion persisted, and a document ingested again leaves its chunks in
\* the table once more, after the rows the earlier ingestion left, with the
\* same ids.
C26_AppendOnly ==
    /\ [][IsPrefix(deleteSample(store.rows), deleteSample(store.rows'))]_vars
    /\ [](pc = "done" /\ table = "open" =>
            \A j \in Range(okLog) :
                RowsFrom(store.rows, j)
                    = RowsFrom(rows0, j) \o Embedded(ChunksOfDoc(j)))

\* the second run has ingested again a document of two chunks that the first
\* run had ingested: its two chunks are in the table twice
C26_Witness ==
    /\ pc = "done"
    /\ runs = 2
    /\ table = "open"
    /\ \E j \in Range(okLog) :
          /\ Len(ChunksOfDoc(j)) = 2
          /\ RowsFrom(rows0, j) = Embedded(ChunksOfDoc(j))
          /\ RowsFrom(store.rows, j)
                = Embedded(ChunksOfDoc(j)) \o Embedded(ChunksOfDoc(j))
          /\ Ids(RowsFrom(store.rows, j))
                = Ids(ChunksOfDoc(j)) \o Ids(ChunksOfDoc(j))

\* C27: a chunk has an empty vector from chunkDocument until its own
\* embedding call has answered, the vector is assigned once, from the
\* embedding of the content of that chunk, before the insert of the
\* document, and no row that ingestion persisted has an empty vector or the
\* vector of another content.
C27_VectorLifecycle ==
    /\ pc \in {"embed", "await", "add"} =>
          \A c \in DOMAIN docChunks :
              docChunks[c].vector
                  = (IF c < chunkPos THEN embedding(docChunks[c].content)
                     ELSE EmptyVector)
    /\ \A e, f \in DOMAIN embedLog : e # f => embedLog[e] # embedLog[f]
    /\ \A e \in DOMAIN insertLog :
          \A r \in DOMAIN insertLog[e].rows :
              insertLog[e].rows[r].vector = embedding(insertLog[e].rows[r].content)
    /\ \A r \in DOMAIN deleteSample(store.rows) :
          LET row == deleteSample(store.rows)[r] IN
          /\ row.vector # EmptyVector
          /\ row.vector.dim > 0
          /\ row.vector = embedding(row.content)

\* a document of two chunks with different contents has been persisted
C27_Witness ==
    /\ pc = "done"
    /\ Len(insertLog) > 0
    /\ \E p, q \in DOMAIN store.rows :
          /\ store.rows[p].content # store.rows[q].content
          /\ store.rows[p].metadata.source_file = store.rows[q].metadata.source_file
          /\ store.rows[p].vector = embedding(store.rows[p].content)
          /\ store.rows[q].vector = embedding(store.rows[q].content)

----------------------------------------------------------------------------
(* Claims about the sections and the packing of chunkDocument *)

\* the sections of the text of the call, trimmed as the loop sees them
Sections == splitSections(cText)

SectionAt(i) == trim(Sections[i])

\* the positions in cChunks of the chunks of sections[i], in order
ChunksOfSection(i) ==
    SelectSeq([c \in 1..Len(cParts) |-> c], LAMBDA c : cParts[c].sec = i - 1)

RECURSIVE Concat(_)
Concat(seqs) == IF seqs = <<>> THEN <<>> ELSE Head(seqs) \o Concat(Tail(seqs))

\* C24: the type of a chunk is that of its section, which is business when
\* the section contains 'Item 1. Business', else risk_factors when it
\* contains 'Item 2. Risk Factors', else financial_statements when it
\* contains 'Financial Statements', else general; a risk-factors section
\* longer than 1000 characters whose sentences are all shorter than the cap
\* yields at least two chunks, all of type risk_factors.
C24_SectionTypes ==
    Returned =>
        /\ \A c \in 1..Len(cChunks) :
              LET section == SectionAt(cParts[c].sec + 1) IN
              cChunks[c].chunk_type =
                 (CASE includes(section, Item1Business) -> "business"
                    [] /\ ~includes(section, Item1Business)
                       /\ includes(section, Item2RiskFactors) -> "risk_factors"
                    [] /\ ~includes(section, Item1Business)
                       /\ ~includes(section, Item2RiskFactors)
                       /\ includes(section, FinancialStatements)
                          -> "financial_statements"
                    [] OTHER -> "general")
        /\ \A i \in 1..Len(Sections) :
              /\ includes(SectionAt(i), Item2RiskFactors)
              /\ ~includes(SectionAt(i), Item1Business)
              /\ Length(SectionAt(i)) > maxChunkSize
              /\ \A t \in Range(splitSentences(SectionAt(i))) :
                     Length(t) < maxChunkSize
              => /\ Len(ChunksOfSection(i)) >= 2
                 /\ \A c \in Range(ChunksOfSection(i)) :
                        cChunks[c].chunk_type = "risk_factors"

\* C25: the sections are the text cut before every section-start marker:
\* they concatenate to the text, every section after the first begins with a
\* marker and no marker begins elsewhere in a section; a section has chunks
\* exactly when its trimmed length is at least 100 characters.
C25_Partition ==
    Returned =>
        /\ Concat(Sections) = cText
        /\ \A i \in 1..Len(Sections) :
              /\ i > 1 => IsSectionStart(Sections[i], 1)
              /\ \A p \in 2..Len(Sections[i]) : ~IsSectionStart(Sections[i], p)
              /\ Len(ChunksOfSection(i)) > 0
                    <=> Length(SectionAt(i)) >= minSectionLength
        /\ \A c \in 1..Len(cChunks) :
              /\ cParts[c].sec + 1 \in 1..Len(Sections)
              /\ \A t \in Range(cParts[c].sents) :
                     t \in Range(splitSentences(SectionAt(cParts[c].sec + 1)))

\* a leading section that is too short is followed by a section, introduced
\* by a marker, that has chunks
C25_Witness ==
    /\ Returned
    /\ Len(Sections) = 2
    /\ Length(SectionAt(1)) > 0
    /\ Length(SectionAt(1)) < minSectionLength
    /\ Len(ChunksOfSection(1)) = 0
    /\ IsSectionStart(Sections[2], 1)
    /\ Len(ChunksOfSection(2)) = 2

\* the sentences s1, s2, .. each followed by a terminator
RECURSIVE Terminated(_)
Terminated(sents) ==
    IF sents = <<>> THEN <<>>
    ELSE Head(sents) \o <<Dot>> \o Terminated(Tail(sents))

\* the sentences s1, s2, .. with a terminator between each two of them
Separated(sents) ==
    IF sents = <<>> THEN <<>>
    ELSE Terminated(SubSeq(sents, 1, Len(sents) - 1)) \o sents[Len(sents)]

\* the sentences of the chunks of sections[i], in the order of the chunks
SentencesPacked(i) ==
    Concat([c \in 1..Len(ChunksOfSection(i)) |->
               cParts[ChunksOfSection(i)[c]].sents])

\* C28: the chunks of a retained section, read in order, hold every sentence
\* of the section once and in the original order (a blank rest is not a
\* chunk), and any two consecutive sentences in a chunk have a terminator
\* between them, also when the first began the buffer after an overflow.
C28_Packing ==
    Returned =>
        /\ \A i \in 1..Len(Sections) :
              Length(SectionAt(i)) >= minSectionLength =>
                 LET all == splitSentences(SectionAt(i))
                     got == SentencesPacked(i)
                 IN /\ Len(got) <= Len(all)
                    /\ got = SubSeq(all, 1, Len(got))
                    /\ \A j \in (Len(got) + 1)..Len(all) : trim(all[j]) = <<>>
        /\ \A c \in 1..Len(cChunks) :
              \/ cChunks[c].content = trim(Terminated(cParts[c].sents))
              \/ cChunks[c].content = trim(Separated(cParts[c].sents))

----------------------------------------------------------------------------
(* Claims about POST /api/company/financials *)

FinancialsAnswered ==
    Answered /\ qRoute = "financials" /\ qRes.status = 200

\* the chunks of the search of the request that the claimed filter keeps
Kept ==
    SelectSeq(searchResults(qRaw), LAMBDA r :
        \/ r.chunk_type \in {"financial_statements", "business"}
        \/ mentionsFinancial(r.content))

\* C22: the financial summary is derived from the retrieved chunks whose type
\* is financial_statements or business or whose lower-cased content contains
\* revenue, income, profit, assets, cash or liabilities, a chunk of type
\* business without any of the words included, and the search behind it
\* asks for between 10 and 20 rows.
C22_FinancialFilter ==
    FinancialsAnswered =>
        /\ qSearch.limit.t = "number"
        /\ qSearch.limit.n >= 10
        /\ qSearch.limit.n <= 20
        /\ qArg.include_context => qRes.payload[1].context = Kept
        /\ qRes.payload[1].financial_summary
              = extractFinancialMetrics([c \in DOMAIN Kept |-> Kept[c].content])

\* C29: in every successful answer of POST /api/company/financials,
\* meta.results_count is the number of chunks that passed the financial
\* filter, with include_context false and with include_context true.
C29_ResultsCount ==
    FinancialsAnswered =>
        qRes.results_count
            = Len(SelectSeq(searchResults(qRaw), isFinancialChunk))

----------------------------------------------------------------------------
(* Claims about the two metric extractions *)

\* the metrics extractCompanyInfo reports for the text, of the given keys,
\* are in the summary, for a single chunk with the amount as written
CoveredBySummary(keys) ==
    mPc \in {"metrics", "done"} =>
        \A c \in DOMAIN mChunks :
            \A key \in DOMAIN financialDataOf(mChunks[c]) \cap keys :
                /\ key \in DOMAIN mMetrics
                /\ Len(mChunks) = 1 =>
                      mMetrics[key]
                          = dollarOf(amountOf(mChunks[c],
                                              labelOfKey(FinancialFields, key)))

\* C23: every one of the nine metrics that extractCompanyInfo reports for a
\* text is reported by extractFinancialMetrics for chunks that contain the
\* text, with the amount as written.
C23_SameMetrics ==
    CoveredBySummary({FinancialFields[f].key : f \in DOMAIN FinancialFields})

----------------------------------------------------------------------------
(* Claims about the ticker between ingestion and lookup *)

\* the positions of the stored rows whose ticker, not empty, is t as written
StoredUnder(t) ==
    {p \in DOMAIN qRows : t # <<>> /\ qRows[p].ticker_symbol = t}

\* C30: a row stored with a ticker that is not empty is retrieved by GET
\* /api/company/{ticker} given that ticker, and by a search whose
\* company_filter is that ticker, when the limit does not cut it off.
C30_TickerRoundTrip ==
    /\ Answered /\ qRoute = "company" /\ qExt.storage = "ok"
       /\ ~HasQuote(qArg.ticker) /\ Len(qRows) <= companyLimit =>
          \A p \in StoredUnder(qArg.ticker) :
              /\ qRes.status = 200
              /\ \E c \in DOMAIN qRes.payload[1].chunks :
                     qRes.payload[1].chunks[c].ticker_symbol = qRows[p].ticker_symbol
    /\ Responded /\ qRes.status = 200 /\ qReq.chunk_type_filter = ""
       /\ qSearch.limit.t = "number" /\ Len(qRows) <= qSearch.limit.n =>
          \A p \in StoredUnder(qReq.company_filter) :
              \E d \in DOMAIN qRes.data :
                  qRes.data[d].ticker_symbol = qRows[p].ticker_symbol

====
